---------------------------- MODULE Spec2Model ----------------------------
(***************************************************************************)
(* Model of fervid's template transform pass                               *)
(* (crates/fervid_transform/src/template/ast_transform.rs):                *)
(* optimize_children (whitespace trim, slot reordering, conditional        *)
(* folding), optimize_v_if_plus_v_for, and the TemplateVisitor             *)
(* (visit_element_node, visit_conditional_node, visit_interpolation,       *)
(* recognize_element_kind, maybe_resolve_component).                       *)
(*                                                                         *)
(* Conventions.  Option<T> is a sequence of length 0 (None) or 1 (Some).   *)
(* Vec<T> is a sequence; Rust indices i = 0..len-1 address element i+1.    *)
(* A text is the sequence of its characters.  Names (tags, attributes,     *)
(* bindings) are strings; Chars gives the characters of a name.            *)
(***************************************************************************)
EXTENDS Integers, Sequences, FiniteSets, TLC

VARIABLES
    input,            \* what the operation under study was handed: a sibling list, an element, a template
    children,         \* the Vec<Node> optimize_children works on, in place
    element_kind,     \* optimize_children's element_kind argument
    overflow_checks,  \* build profile: TRUE = overflow checks on (debug)
    stage,            \* position inside optimize_children
    element,          \* the ElementNode handed to visit_element_node
    visitor,          \* TemplateVisitor: bindings_helper and current_scope
    call_stack,       \* locals of the calls in progress: parent_scope, the roots loop's position
    last_call         \* the last visitor call made: its name and argument

vars == <<input, children, element_kind, overflow_checks, stage,
          element, visitor, call_stack, last_call>>

-----------------------------------------------------------------------------
(* Bounds of the model *)

MaxLen == 4

MaxSlotLen == 3

MaxEdge == 2

MaxAttrs == 3

MaxLoopAttrs == 1

MaxBindings == 2

MaxScopes == 3

(* Children of a wrapper handed to optimize_v_if_plus_v_for *)
MaxWrapperLen == 2

(* Roots of a template handed to transform_and_record_template *)
MaxRoots == 3

(* Root nodes of a template whose roots include `template` wrappers *)
MaxWrapperRoots == 2

(* Width of discard_mask: u128 *)
MaskBits == 128

-----------------------------------------------------------------------------
(* Option *)

None == <<>>

Some(x) == <<x>>

IsSome(o) == Len(o) = 1

Unwrap(o) == o[1]

-----------------------------------------------------------------------------
(* Texts and str::trim *)

WhiteSpace == {" ", "\n", "\t"}

RECURSIVE TrimStart(_)
TrimStart(s) ==
    IF s = <<>> THEN s
    ELSE IF Head(s) \in WhiteSpace THEN TrimStart(Tail(s)) ELSE s

RECURSIVE TrimEnd(_)
TrimEnd(s) ==
    IF s = <<>> THEN s
    ELSE IF s[Len(s)] \in WhiteSpace THEN TrimEnd(SubSeq(s, 1, Len(s) - 1)) ELSE s

trim(s) == TrimEnd(TrimStart(s))

is_empty(s) == Len(s) = 0

WsText == <<"\n", " ">>

WordText == <<" ", "a", " ">>

-----------------------------------------------------------------------------
(* The tree: Node, ElementNode, StartingTag, VueDirectives, PatchHints *)

(* An expression and what the binding subsystem will say of it: reactive  *)
(* is transform_expr's answer, scope the scope it was transformed under.  *)
Expr(src, reactive) == [src |-> src, reactive |-> reactive, scope |-> None]

DefaultDirectives ==
    [v_if |-> None, v_else_if |-> None, v_else |-> None, v_for |-> None,
     v_slot |-> None, v_model |-> <<>>, v_html |-> None, v_memo |-> None,
     v_show |-> None, v_text |-> None]

DefaultPatchHints == [flags |-> {}, props |-> <<>>]

VForDirective(itervar, iterable) ==
    [itervar |-> itervar, iterable |-> iterable, patch_flags |-> {}]

VSlotDirective(slot_name, value) == [slot_name |-> slot_name, value |-> value]

(* ElementKind: Element, Component, Builtin(BuiltinType) *)
KindElement == <<"Element">>

KindComponent == <<"Component">>

KindBuiltin(builtin_type) == <<"Builtin", builtin_type>>

TextNode(v, sp) == [type |-> "Text", text |-> v, span |-> sp]

CommentNode(sp) == [type |-> "Comment", text |-> <<"c">>, span |-> sp]

InterpolationNode(e, sp) ==
    [type |-> "Interpolation", value |-> e, template_scope |-> 0,
     patch_flag |-> FALSE, span |-> sp]

ElementNode(tag, attrs, dirs, kids, sp) ==
    [type |-> "Element", kind |-> KindElement,
     starting_tag |-> [tag_name |-> tag, attributes |-> attrs, directives |-> dirs],
     children |-> kids, template_scope |-> 0,
     patch_hints |-> DefaultPatchHints, span |-> sp]

IsText(n) == n.type = "Text"

IsElement(n) == n.type = "Element"

IsComment(n) == n.type = "Comment"

IsInterpolation(n) == n.type = "Interpolation"

IsConditionalSeq(n) == n.type = "ConditionalSeq"

(* Node::Text(v, _) if v.trim().is_empty() *)
IsBlankText(n) == IsText(n) /\ is_empty(trim(n.text))

-----------------------------------------------------------------------------
(* optimize_children, stage 1: whitespace trim with a u128 discard mask *)

(* The bits of `1 << k` for the u128 literal 1: with overflow checks off  *)
(* the shift amount wraps to the width of the type.                       *)
Shl(k) == {k % MaskBits}

(* [Element | Comment, Text(middle), Element | Comment] if middle.trim().is_empty(), *)
(* for the window that starts at Rust index `index`                                  *)
WindowMatches(c, index) ==
    /\ IsElement(c[index + 1]) \/ IsComment(c[index + 1])
    /\ IsBlankText(c[index + 2])
    /\ IsElement(c[index + 3]) \/ IsComment(c[index + 3])

FirstIsBlank(c) == Len(c) > 0 /\ IsBlankText(c[1])

LastIsBlank(c) == Len(c) > 0 /\ IsBlankText(c[Len(c)])

(* The set bits of discard_mask after the three marking steps *)
discard_mask(c) ==
    (IF FirstIsBlank(c) THEN Shl(0) ELSE {})
    \cup (IF LastIsBlank(c) THEN Shl(Len(c) - 1) ELSE {})
    \cup UNION { IF WindowMatches(c, i) THEN Shl(i + 1) ELSE {} : i \in 0 .. Len(c) - 3 }

(* Every shift amount the stage evaluates: marking and the retain closure *)
ShiftAmounts(c) ==
    (IF FirstIsBlank(c) THEN {0} ELSE {})
    \cup (IF LastIsBlank(c) THEN {Len(c) - 1} ELSE {})
    \cup { i + 1 : i \in { j \in 0 .. Len(c) - 3 : WindowMatches(c, j) } }
    \cup (0 .. Len(c) - 1)

(* With overflow checks on, a shift by the width or more panics *)
TrimPanics(c, checks) == checks /\ \E k \in ShiftAmounts(c) : k >= MaskBits

(* discard_mask & (1 << index) == 0 *)
should_retain(mask, index) == Shl(index) \cap mask = {}

(* children.retain(|_| ...): the closure sees the nodes in order, index   *)
(* counting from 0; a node stays when its bit of the mask is clear.        *)
Indexed(c) == [i \in 1 .. Len(c) |-> [index |-> i - 1, node |-> c[i]]]

Retain(c, mask) ==
    LET IsKept(e) == should_retain(mask, e.index)
        kept == SelectSeq(Indexed(c), IsKept)
    IN [j \in 1 .. Len(kept) |-> kept[j].node]

WhitespaceTrim(c) == Retain(c, discard_mask(c))

-----------------------------------------------------------------------------
(* optimize_children, stage 2: named slots first, for components *)

(* fervid_core::is_from_default_slot: an element with a slot directive    *)
(* naming a slot other than "default" is not default-slot content.        *)
is_from_default_slot(n) ==
    ~ ( /\ IsElement(n)
        /\ IsSome(n.starting_tag.directives)
        /\ IsSome(Unwrap(n.starting_tag.directives).v_slot)
        /\ IsSome(Unwrap(Unwrap(n.starting_tag.directives).v_slot).slot_name)
        /\ Unwrap(Unwrap(Unwrap(n.starting_tag.directives).v_slot).slot_name) # "default" )

(* bool::cmp, false < true: -1 Less, 0 Equal, 1 Greater *)
cmp_bool(a, b) == IF a = b THEN 0 ELSE IF b THEN -1 ELSE 1

SlotOrder(a, b) == cmp_bool(is_from_default_slot(a), is_from_default_slot(b))

(* slice::sort_by is a stable sort: an element moves left only past       *)
(* elements strictly greater than it.                                     *)
RECURSIVE InsertSorted(_, _)
InsertSorted(s, x) ==
    IF s = <<>> THEN <<x>>
    ELSE IF SlotOrder(x, s[Len(s)]) = -1
         THEN InsertSorted(SubSeq(s, 1, Len(s) - 1), x) \o <<s[Len(s)]>>
         ELSE s \o <<x>>

RECURSIVE sort_by(_)
sort_by(c) ==
    IF c = <<>> THEN <<>>
    ELSE InsertSorted(sort_by(SubSeq(c, 1, Len(c) - 1)), c[Len(c)])

(* The reordering applied whatever the kind of the parent *)
SlotReorderAnyKind(c, kind) ==
    IF Len(c) > 0 THEN sort_by(c) ELSE c

SlotReorder(c, kind) ==
    IF kind = KindComponent /\ Len(c) > 0 THEN sort_by(c) ELSE c

-----------------------------------------------------------------------------
(* optimize_v_if_plus_v_for *)

has_v_for(el) ==
    IsSome(el.starting_tag.directives) /\ IsSome(Unwrap(el.starting_tag.directives).v_for)

(* get_or_insert_with(Default::default), then v_for = the parent's *)
GiveVFor(child, v_for) ==
    LET d == IF IsSome(child.starting_tag.directives)
             THEN Unwrap(child.starting_tag.directives)
             ELSE DefaultDirectives
    IN [child EXCEPT !.starting_tag.directives = Some([d EXCEPT !.v_for = v_for])]

(* The collapse without the test of lines 241-243 on the two loops *)
CollapseOverChildLoop(parent) ==
    IF Len(parent.children) # 1 \/ parent.starting_tag.tag_name # "template"
    THEN parent
    ELSE IF ~IsElement(parent.children[1])
    THEN parent
    ELSE IF has_v_for(parent)
    THEN GiveVFor(parent.children[1], Unwrap(parent.starting_tag.directives).v_for)
    ELSE parent.children[1]

optimize_v_if_plus_v_for(parent) ==
    IF Len(parent.children) # 1 \/ parent.starting_tag.tag_name # "template"
    THEN parent
    ELSE IF ~IsElement(parent.children[1])
    THEN parent
    ELSE IF has_v_for(parent) /\ has_v_for(parent.children[1])
    THEN parent
    ELSE IF has_v_for(parent)
    THEN GiveVFor(parent.children[1], Unwrap(parent.starting_tag.directives).v_for)
    ELSE parent.children[1]

-----------------------------------------------------------------------------
(* optimize_children, stage 3: conditional folding *)

ConditionalSeq(if_cond, if_el) ==
    [type |-> "ConditionalSeq",
     if_node |-> [condition |-> if_cond, node |-> if_el],
     else_if_nodes |-> <<>>, else_node |-> None]

(* finish_seq!(): the open sequence, if any, goes to new_children *)
finish_seq(seq, out) == IF IsSome(seq) THEN out \o <<Unwrap(seq)>> ELSE out

Directives(el) == Unwrap(el.starting_tag.directives)

(* directives.<key>.take() *)
Take(el, key) ==
    [el EXCEPT !.starting_tag.directives = Some([Directives(el) EXCEPT ![key] = None])]

(* The iteration with a v-else that leaves its sequence open *)
FoldStepElseKeepsOpen(acc, child) ==
    LET seq == acc.seq
        out == acc.out
    IN
    IF ~IsElement(child)
    THEN IF IsComment(child) /\ IsSome(seq)
         THEN acc
         ELSE [seq |-> None, out |-> finish_seq(seq, out) \o <<child>>]
    ELSE IF ~IsSome(child.starting_tag.directives)
    THEN [seq |-> None, out |-> finish_seq(seq, out) \o <<child>>]
    ELSE IF IsSome(Directives(child).v_if)
    THEN [seq |-> Some(ConditionalSeq(Unwrap(Directives(child).v_if),
                                      optimize_v_if_plus_v_for(Take(child, "v_if")))),
          out |-> finish_seq(seq, out)]
    ELSE IF IsSome(Directives(child).v_else_if)
    THEN IF ~IsSome(seq)
         THEN [seq |-> None, out |-> finish_seq(seq, out) \o <<Take(child, "v_else_if")>>]
         ELSE [seq |-> Some([Unwrap(seq) EXCEPT !.else_if_nodes =
                     @ \o << [condition |-> Unwrap(Directives(child).v_else_if),
                              node |-> optimize_v_if_plus_v_for(Take(child, "v_else_if"))] >>]),
               out |-> out]
    ELSE IF IsSome(Directives(child).v_else)
    THEN IF ~IsSome(seq)
         THEN [seq |-> None, out |-> finish_seq(seq, out) \o <<child>>]
         ELSE [seq |-> Some([Unwrap(seq) EXCEPT !.else_node =
                                 Some(optimize_v_if_plus_v_for(child))]),
               out |-> out]
    ELSE [seq |-> None, out |-> finish_seq(seq, out) \o <<child>>]

(* The iteration with a comment that closes the open sequence like any    *)
(* other node                                                              *)
FoldStepCommentCloses(acc, child) ==
    LET seq == acc.seq
        out == acc.out
    IN
    IF ~IsElement(child)
    THEN [seq |-> None, out |-> finish_seq(seq, out) \o <<child>>]
    ELSE IF ~IsSome(child.starting_tag.directives)
    THEN [seq |-> None, out |-> finish_seq(seq, out) \o <<child>>]
    ELSE IF IsSome(Directives(child).v_if)
    THEN [seq |-> Some(ConditionalSeq(Unwrap(Directives(child).v_if),
                                      optimize_v_if_plus_v_for(Take(child, "v_if")))),
          out |-> finish_seq(seq, out)]
    ELSE IF IsSome(Directives(child).v_else_if)
    THEN IF ~IsSome(seq)
         THEN [seq |-> None, out |-> finish_seq(seq, out) \o <<Take(child, "v_else_if")>>]
         ELSE [seq |-> Some([Unwrap(seq) EXCEPT !.else_if_nodes =
                     @ \o << [condition |-> Unwrap(Directives(child).v_else_if),
                              node |-> optimize_v_if_plus_v_for(Take(child, "v_else_if"))] >>]),
               out |-> out]
    ELSE IF IsSome(Directives(child).v_else)
    THEN IF ~IsSome(seq)
         THEN [seq |-> None, out |-> finish_seq(seq, out) \o <<child>>]
         ELSE [seq |-> None,
               out |-> out \o << [Unwrap(seq) EXCEPT !.else_node =
                                     Some(optimize_v_if_plus_v_for(child))] >>]
    ELSE [seq |-> None, out |-> finish_seq(seq, out) \o <<child>>]

(* One iteration of `for mut child in children.drain(..)`: the open       *)
(* sequence and new_children after `child`.                               *)
FoldStep(acc, child) ==
    LET seq == acc.seq
        out == acc.out
    IN
    IF ~IsElement(child)
    THEN IF IsComment(child) /\ IsSome(seq)
         THEN acc
         ELSE [seq |-> None, out |-> finish_seq(seq, out) \o <<child>>]
    ELSE IF ~IsSome(child.starting_tag.directives)
    THEN [seq |-> None, out |-> finish_seq(seq, out) \o <<child>>]
    ELSE IF IsSome(Directives(child).v_if)
    THEN [seq |-> Some(ConditionalSeq(Unwrap(Directives(child).v_if),
                                      optimize_v_if_plus_v_for(Take(child, "v_if")))),
          out |-> finish_seq(seq, out)]
    ELSE IF IsSome(Directives(child).v_else_if)
    THEN IF ~IsSome(seq)
         THEN [seq |-> None, out |-> finish_seq(seq, out) \o <<Take(child, "v_else_if")>>]
         ELSE [seq |-> Some([Unwrap(seq) EXCEPT !.else_if_nodes =
                     @ \o << [condition |-> Unwrap(Directives(child).v_else_if),
                              node |-> optimize_v_if_plus_v_for(Take(child, "v_else_if"))] >>]),
               out |-> out]
    ELSE IF IsSome(Directives(child).v_else)
    THEN IF ~IsSome(seq)
         THEN [seq |-> None, out |-> finish_seq(seq, out) \o <<child>>]
         ELSE [seq |-> None,
               out |-> out \o << [Unwrap(seq) EXCEPT !.else_node =
                                     Some(optimize_v_if_plus_v_for(child))] >>]
    ELSE [seq |-> None, out |-> finish_seq(seq, out) \o <<child>>]

(* The loop over children[lo .. hi] (1-based, lo <= hi), left to right,  *)
(* from the accumulator acc.  The range is split, and the left part is     *)
(* evaluated before the right part starts (the test on `left`), to keep    *)
(* the evaluation shallow; the order of the steps is the list's.           *)
RECURSIVE FoldRange(_, _, _, _)
FoldRange(c, lo, hi, acc) ==
    IF lo = hi THEN FoldStep(acc, c[lo])
    ELSE LET mid == (lo + hi) \div 2
             left == FoldRange(c, lo, mid, acc)
         IN IF Len(left.out) >= 0 THEN FoldRange(c, mid + 1, hi, left) ELSE left

(* The fold that leaves a sequence still open at the end of the list out *)
FoldWithoutFinalClose(c) ==
    IF Len(c) = 0 THEN c
    ELSE FoldRange(c, 1, Len(c), [seq |-> None, out |-> <<>>]).out

FoldConditionals(c) ==
    IF Len(c) = 0 THEN c
    ELSE LET acc == FoldRange(c, 1, Len(c), [seq |-> None, out |-> <<>>])
         IN finish_seq(acc.seq, acc.out)

(* optimize_children on a build that does not panic *)
optimize_children(c, kind) == FoldConditionals(SlotReorder(WhitespaceTrim(c), kind))

-----------------------------------------------------------------------------
(* Sibling lists handed to optimize_children *)

WithDirective(key, value) == Some([DefaultDirectives EXCEPT ![key] = value])

(* The kinds of sibling the lists are built from; sp is the node's span *)
Proto(k, sp) ==
    CASE k = 1 -> TextNode(WsText, sp)
      [] k = 2 -> TextNode(WordText, sp)
      [] k = 3 -> InterpolationNode(Expr("msg", TRUE), sp)
      [] k = 4 -> CommentNode(sp)
      [] k = 5 -> ElementNode("div", <<>>, None, <<>>, sp)
      [] k = 6 -> ElementNode("h1", <<>>, WithDirective("v_if", Some(Expr("ok", TRUE))), <<>>, sp)
      [] k = 7 -> ElementNode("h2", <<>>, WithDirective("v_else_if", Some(Expr("foo", TRUE))), <<>>, sp)
      [] k = 8 -> ElementNode("h3", <<>>, WithDirective("v_else", Some("unit")), <<>>, sp)
      [] k = 9 -> ElementNode("template", <<>>, WithDirective("v_if", Some(Expr("ok", TRUE))),
                              << ElementNode("p", <<>>, None, <<>>, sp + 1000) >>, sp)
      [] k = 10 -> ElementNode("template", <<>>,
                               WithDirective("v_slot", Some(VSlotDirective(Some("header"), None))),
                               <<>>, sp)
      [] k = 11 -> ElementNode("template", <<>>,
                               Some([DefaultDirectives EXCEPT
                                        !.v_else = Some("unit"),
                                        !.v_slot = Some(VSlotDirective(Some("footer"), None))]),
                               <<>>, sp)
      [] k = 12 -> ElementNode("template", <<>>, WithDirective("v_if", Some(Expr("ok", TRUE))),
                               << ElementNode("p", <<>>,
                                              WithDirective("v_if", Some(Expr("foo", TRUE))),
                                              <<>>, sp + 1000) >>, sp)

CoreKinds == 1 .. 8

SlotKinds == {1, 5, 6, 8, 9, 10, 11}

EdgeKinds == {1, 3, 5}

(* Every list of at most n nodes of the kinds ks, each node's span its index *)
Lists(ks, n) ==
    UNION { { [i \in 1 .. m |-> Proto(f[i], i - 1)] : f \in [1 .. m -> ks] } : m \in 0 .. n }

Shift(c, by) == [i \in 1 .. Len(c) |-> [c[i] EXCEPT !.span = @ + by]]

(* Long lists: a short head, a run of plain elements, a short tail *)
PadLens == {MaskBits - 2, MaskBits}

Pad(n, from) == [i \in 1 .. n |-> Proto(5, from + i - 1)]

LongLists ==
    { h \o Pad(n, Len(h)) \o Shift(t, Len(h) + n) :
        h \in Lists(EdgeKinds, MaxEdge), t \in Lists(EdgeKinds, MaxEdge), n \in PadLens }

(* Long lists that start with a chain v-if, v-else-if, v-else *)
Chain == << Proto(6, 0), Proto(7, 1), Proto(8, 2) >>

LongChainLists ==
    { Chain \o Pad(n, 3) \o Shift(t, 3 + n) :
        t \in Lists(EdgeKinds, MaxEdge), n \in {MaskBits - 2} }

ElementKinds == {KindElement, KindComponent, KindBuiltin("Transition")}

-----------------------------------------------------------------------------
(* Names and their characters *)

TestKebab == "test-component"

TestPascal == "TestComponent"

TagNames == {TestKebab, TestPascal, "UnresolvedComponent", "-my--comp", "component"}

BindingNames == {TestPascal, "MyComp"}

Chars(name) ==
    CASE name = "test-component" ->
            <<"t", "e", "s", "t", "-", "c", "o", "m", "p", "o", "n", "e", "n", "t">>
      [] name = "TestComponent" ->
            <<"T", "e", "s", "t", "C", "o", "m", "p", "o", "n", "e", "n", "t">>
      [] name = "UnresolvedComponent" ->
            <<"U", "n", "r", "e", "s", "o", "l", "v", "e", "d",
              "C", "o", "m", "p", "o", "n", "e", "n", "t">>
      [] name = "component" -> <<"c", "o", "m", "p", "o", "n", "e", "n", "t">>
      [] name = "-my--comp" -> <<"-", "m", "y", "-", "-", "c", "o", "m", "p">>
      [] name = "MyComp" -> <<"M", "y", "C", "o", "m", "p">>

(* char::to_uppercase, on the letters the names use; a character without  *)
(* an uppercase mapping is returned as it is                               *)
to_uppercase(ch) ==
    CASE ch = "t" -> <<"T">>
      [] ch = "c" -> <<"C">>
      [] ch = "m" -> <<"M">>
      [] ch = "u" -> <<"U">>
      [] OTHER -> <<ch>>

(* str::split('-'): the words between the dashes, empty words included *)
RECURSIVE SplitFrom(_, _, _)
SplitFrom(chars, i, word) ==
    IF i > Len(chars) THEN <<word>>
    ELSE IF chars[i] = "-" THEN <<word>> \o SplitFrom(chars, i + 1, <<>>)
    ELSE SplitFrom(chars, i + 1, Append(word, chars[i]))

split(chars) == SplitFrom(chars, 1, <<>>)

contains_dash(chars) == \E i \in 1 .. Len(chars) : chars[i] = "-"

(* Lines 553-571: `component-name` becomes `ComponentName`; a name without *)
(* a dash is searched as it is                                             *)
RECURSIVE Capitalized(_, _)
Capitalized(words, i) ==
    IF i > Len(words) THEN <<>>
    ELSE (IF words[i] = <<>> THEN <<>>
          ELSE to_uppercase(Head(words[i])) \o Tail(words[i]))
         \o Capitalized(words, i + 1)

(* The tag name searched as it is written *)
SearchedAsWritten(tag_name) == Chars(tag_name)

searched(tag_name) ==
    IF contains_dash(Chars(tag_name))
    THEN Capitalized(split(Chars(tag_name)), 1)
    ELSE Chars(tag_name)

-----------------------------------------------------------------------------
(* The binding subsystem, consumed by the visitor *)

(* BindingsHelper::transform_expr: rewrites the expression under the scope *)
(* and reports whether a reactive binding was touched; every call is       *)
(* recorded in `transformed`.                                              *)
transform_expr(bh, expr, scope) ==
    [bh |-> [bh EXCEPT !.transformed = Append(@, [src |-> expr.src, scope |-> scope])],
     expr |-> [expr EXCEPT !.scope = Some(scope)],
     result |-> expr.reactive]

(* collect_variables: the names the pattern introduces go to the scope *)
collect_variables(bh, pattern, scope) ==
    [bh EXCEPT !.template_scopes[scope + 1].variables = Append(@, pattern.src)]

(* BindingsHelper::transform_v_model: transforms the model's value under   *)
(* the scope and contributes the model's name to the hints the way a       *)
(* binding of that name does: nothing once FULL_PROPS is set, FULL_PROPS   *)
(* for a dynamic name, a named prop otherwise.                             *)
transform_v_model(bh, v_model, scope, patch_hints) ==
    LET t == transform_expr(bh, v_model.value, scope)
        argument == v_model.argument
    IN [bh |-> t.bh,
        v_model |-> [v_model EXCEPT !.value = t.expr],
        patch_hints |->
            IF "FullProps" \in patch_hints.flags THEN patch_hints
            ELSE IF IsSome(argument) /\ Unwrap(argument).kind = "Expr"
            THEN [flags |-> (patch_hints.flags \ {"Props", "Class", "Style"})
                                \cup {"FullProps"},
                  props |-> <<>>]
            ELSE [flags |-> patch_hints.flags \cup {"Props"},
                  props |-> Append(patch_hints.props,
                                   IF IsSome(argument) THEN Unwrap(argument).str
                                   ELSE "modelValue")]]

(* fervid_core::check_attribute_name: a regular attribute of that name, or *)
(* a binding whose argument is that literal name                           *)
check_attribute_name(attr, name) ==
    \/ attr.attr = "Regular" /\ attr.name = name
    \/ /\ attr.attr = "VBind"
       /\ IsSome(attr.argument)
       /\ Unwrap(attr.argument).kind = "Str"
       /\ Unwrap(attr.argument).str = name

(* fervid_core::VUE_BUILTINS: tag name -> BuiltinType *)
VUE_BUILTINS(tag_name) ==
    CASE tag_name = "component" -> Some("Component")
      [] tag_name = "slot" -> Some("Slot")
      [] tag_name = "transition" -> Some("Transition")
      [] tag_name = "keep-alive" -> Some("KeepAlive")
      [] OTHER -> None

(* fervid_core::is_html_tag *)
is_html_tag(tag_name) ==
    tag_name \in {"div", "p", "span", "h1", "h2", "h3", "ul", "li", "template", "slot"}

-----------------------------------------------------------------------------
(* TemplateVisitor: recognize_element_kind, maybe_resolve_component *)

(* The classification with the HTML vocabulary consulted first *)
RecognizeHtmlFirst(starting_tag) ==
    IF is_html_tag(starting_tag.tag_name) THEN KindElement
    ELSE IF IsSome(VUE_BUILTINS(starting_tag.tag_name))
    THEN IF /\ starting_tag.tag_name = "component"
            /\ ~ \E i \in 1 .. Len(starting_tag.attributes) :
                    check_attribute_name(starting_tag.attributes[i], "is")
         THEN KindComponent
         ELSE KindBuiltin(Unwrap(VUE_BUILTINS(starting_tag.tag_name)))
    ELSE KindComponent

recognize_element_kind(starting_tag) ==
    IF IsSome(VUE_BUILTINS(starting_tag.tag_name))
    THEN IF /\ starting_tag.tag_name = "component"
            /\ ~ \E i \in 1 .. Len(starting_tag.attributes) :
                    check_attribute_name(starting_tag.attributes[i], "is")
         THEN KindComponent
         ELSE KindBuiltin(Unwrap(VUE_BUILTINS(starting_tag.tag_name)))
    ELSE IF is_html_tag(starting_tag.tag_name) THEN KindElement ELSE KindComponent

(* ComponentBinding, and the absent entry of the components table *)
Absent == [state |-> "Absent", expr |-> None]

Unresolved == [state |-> "Unresolved", expr |-> None]

Resolved(expr) == [state |-> "Resolved", expr |-> Some(expr)]

contains_key(components, tag_name) == components[tag_name].state # "Absent"

(* setup_bindings.iter().find(|binding| binding.0 == searched): the index  *)
(* of the first binding of that name, 0 when there is none                 *)
find(setup_bindings, name_chars) ==
    LET hits == { i \in 1 .. Len(setup_bindings) :
                    Chars(setup_bindings[i].name) = name_chars }
    IN IF hits = {} THEN 0 ELSE CHOOSE i \in hits : \A j \in hits : i <= j

(* Expr::Ident of the found binding's name: not yet transformed *)
Ident(sym) == [src |-> sym, reactive |-> TRUE, scope |-> None]

(* Lines 552-604: the search and the insertion *)
ResolveAndInsert(v, tag_name) ==
    LET bh == v.bindings_helper
        found == find(bh.setup_bindings, searched(tag_name))
    IN
    IF found = 0
    THEN [v EXCEPT !.bindings_helper.components[tag_name] = Unresolved]
    ELSE IF bh.setup_bindings[found].binding_type = "Component"
    THEN [v EXCEPT !.bindings_helper.components[tag_name] =
                        Resolved(Ident(bh.setup_bindings[found].name))]
    ELSE LET t == transform_expr(bh, Ident(bh.setup_bindings[found].name), v.current_scope)
         IN [v EXCEPT !.bindings_helper =
                [t.bh EXCEPT !.components[tag_name] = Resolved(t.expr)]]

(* The search and the insertion without the look at the table first *)
ResolveWithoutLookup(v, tag_name) == ResolveAndInsert(v, tag_name)

(* Lines 544-605 *)
maybe_resolve_component(v, tag_name) ==
    IF contains_key(v.bindings_helper.components, tag_name) THEN v
    ELSE ResolveAndInsert(v, tag_name)

-----------------------------------------------------------------------------
(* Attributes: AttributeOrBinding, StrOrExpr, VModelDirective *)

Str(name) == [kind |-> "Str", str |-> name]

DynExpr(e) == [kind |-> "Expr", expr |-> e]

(* RegularAttribute { name, value }: the value is a literal text *)
Regular(name, value) == [attr |-> "Regular", name |-> name, literal |-> value]

VBind(argument, value) == [attr |-> "VBind", argument |-> argument, value |-> value]

VOn(event, handler) == [attr |-> "VOn", event |-> event, handler |-> handler]

VModelDirective(argument, value) == [argument |-> argument, value |-> value]

-----------------------------------------------------------------------------
(* TemplateVisitor::visit_element_node and the other visit methods *)

(* A loop runs its iterations one after the other: the record an          *)
(* iteration produces is evaluated before the next iteration starts.       *)
(* Evaluated(r) holds of every record r; a loop tests it on the record it  *)
(* carries, which makes the evaluation happen there.                       *)
Evaluated(r) == DOMAIN r # {}

(* The push of lines 300-307 without the new scope becoming the one to use *)
PushScopeUnused(st, parent_scope) ==
    LET d == Unwrap(st.el.starting_tag.directives)
    IN IF IsSome(d.v_for) \/ IsSome(d.v_slot)
       THEN [st EXCEPT
               !.v.bindings_helper.template_scopes =
                   Append(@, [variables |-> <<>>, parent |-> parent_scope])]
       ELSE st

(* Lines 295-350: the scoping directives.  st = [v, el, scope_to_use] *)
PushScope(st, parent_scope) ==
    LET d == Unwrap(st.el.starting_tag.directives)
    IN IF IsSome(d.v_for) \/ IsSome(d.v_slot)
       THEN [st EXCEPT
               !.scope_to_use = Len(st.v.bindings_helper.template_scopes),
               !.v.bindings_helper.template_scopes =
                   Append(@, [variables |-> <<>>, parent |-> parent_scope])]
       ELSE st

(* The loop's flag chosen without looking for a `key` *)
FragmentFlagIgnoringKey(is_dynamic, has_key) ==
    IF ~ is_dynamic THEN "StableFragment" ELSE "UnkeyedFragment"

(* Lines 320-337: the fragment flag of a loop *)
FragmentFlag(is_dynamic, has_key) ==
    IF ~ is_dynamic THEN "StableFragment"
    ELSE IF has_key THEN "KeyedFragment" ELSE "UnkeyedFragment"

has_attribute(attributes, name) ==
    \E i \in 1 .. Len(attributes) : check_attribute_name(attributes[i], name)

(* Lines 309-338 *)
VForStep(st) ==
    LET d == Unwrap(st.el.starting_tag.directives)
    IN IF ~ IsSome(d.v_for) THEN st
       ELSE LET v_for == Unwrap(d.v_for)
                bh1 == collect_variables(st.v.bindings_helper, v_for.itervar, st.scope_to_use)
                t == transform_expr(bh1, v_for.iterable, st.scope_to_use)
                has_key == has_attribute(st.el.starting_tag.attributes, "key")
                v_for2 == [v_for EXCEPT
                             !.iterable = t.expr,
                             !.patch_flags = @ \cup {FragmentFlag(t.result, has_key)}]
            IN [st EXCEPT
                  !.v.bindings_helper = t.bh,
                  !.el.starting_tag.directives = Some([d EXCEPT !.v_for = Some(v_for2)])]

(* Lines 340-349 *)
VSlotStep(st) ==
    LET d == Unwrap(st.el.starting_tag.directives)
    IN IF IsSome(d.v_slot) /\ IsSome(Unwrap(d.v_slot).value)
       THEN [st EXCEPT !.v.bindings_helper =
                collect_variables(@, Unwrap(Unwrap(d.v_slot).value), st.scope_to_use)]
       ELSE st

ScopeStep(v, el, parent_scope) ==
    LET st0 == [v |-> v, el |-> el, scope_to_use |-> parent_scope]
    IN IF IsSome(el.starting_tag.directives)
       THEN VSlotStep(VForStep(PushScope(st0, parent_scope)))
       ELSE st0

(* FULL_PROPS set without clearing the hints collected so far *)
SetFullPropsKeepingHints(patch_hints) ==
    [patch_hints EXCEPT !.flags = @ \cup {"FullProps"}]

(* Lines 371-378: a dynamic argument, or none *)
SetFullProps(patch_hints) ==
    [flags |-> (patch_hints.flags \ {"Props", "Class", "Style"}) \cup {"FullProps"},
     props |-> <<>>]

(* Lines 383-407: the hints of a binding named by the literal `argument` *)
NamedBindingHints(patch_hints, argument, has_bindings, is_component) ==
    IF ~ has_bindings \/ "FullProps" \in patch_hints.flags THEN patch_hints
    ELSE IF argument = "key" THEN patch_hints
    ELSE IF is_component
    THEN [flags |-> patch_hints.flags \cup {"Props"},
          props |-> Append(patch_hints.props, argument)]
    ELSE IF argument = "class"
    THEN [patch_hints EXCEPT !.flags = @ \cup {"Class"}]
    ELSE IF argument = "style"
    THEN [patch_hints EXCEPT !.flags = @ \cup {"Style"}]
    ELSE [flags |-> patch_hints.flags \cup {"Props"},
          props |-> Append(patch_hints.props, argument)]

(* Lines 358-419: one iteration of the loop over the attributes.           *)
(* a = [bh, patch_hints, attributes], attributes the ones already visited  *)
AttrStep(a, attr, scope_to_use, is_component) ==
    IF attr.attr = "VBind"
    THEN LET t == transform_expr(a.bh, attr.value, scope_to_use)
             done == [attr EXCEPT !.value = t.expr]
             is_named == IsSome(attr.argument) /\ Unwrap(attr.argument).kind = "Str"
         IN [bh |-> t.bh,
             patch_hints |->
                 IF is_named
                 THEN NamedBindingHints(a.patch_hints, Unwrap(attr.argument).str,
                                        t.result, is_component)
                 ELSE SetFullProps(a.patch_hints),
             attributes |-> Append(a.attributes, done)]
    ELSE IF attr.attr = "VOn" /\ IsSome(attr.handler)
    THEN LET t == transform_expr(a.bh, Unwrap(attr.handler), scope_to_use)
         IN [a EXCEPT !.bh = t.bh,
                      !.attributes = Append(@, [attr EXCEPT !.handler = Some(t.expr)])]
    ELSE [a EXCEPT !.attributes = Append(@, attr)]

RECURSIVE AttrLoop(_, _, _, _, _)
AttrLoop(a, attributes, i, scope_to_use, is_component) ==
    IF ~ Evaluated(a) \/ i > Len(attributes) THEN a
    ELSE AttrLoop(AttrStep(a, attributes[i], scope_to_use, is_component),
                  attributes, i + 1, scope_to_use, is_component)

(* maybe_transform!(key), lines 423-434.  b = [bh, directives, patch_hints] *)
maybe_transform(b, key, scope_to_use) ==
    IF IsSome(b.directives[key])
    THEN LET t == transform_expr(b.bh, Unwrap(b.directives[key]), scope_to_use)
         IN [b EXCEPT !.bh = t.bh, !.directives[key] = Some(t.expr)]
    ELSE b

(* Lines 436-439 *)
RECURSIVE VModelLoop(_, _, _)
VModelLoop(b, i, scope_to_use) ==
    IF ~ Evaluated(b) \/ i > Len(b.directives.v_model) THEN b
    ELSE LET t == transform_v_model(b.bh, b.directives.v_model[i], scope_to_use,
                                    b.patch_hints)
         IN VModelLoop([bh |-> t.bh,
                        directives |-> [b.directives EXCEPT !.v_model[i] = t.v_model],
                        patch_hints |-> t.patch_hints],
                       i + 1, scope_to_use)

(* Lines 422-440 *)
DirectivesStep(bh, directives, patch_hints, scope_to_use) ==
    IF IsSome(directives)
    THEN LET b0 == [bh |-> bh, directives |-> Unwrap(directives),
                    patch_hints |-> patch_hints]
             b4 == maybe_transform(
                       maybe_transform(
                           maybe_transform(
                               maybe_transform(b0, "v_html", scope_to_use),
                               "v_memo", scope_to_use),
                           "v_show", scope_to_use),
                       "v_text", scope_to_use)
             b5 == VModelLoop(b4, 1, scope_to_use)
         IN [bh |-> b5.bh, directives |-> Some(b5.directives),
             patch_hints |-> b5.patch_hints]
    ELSE [bh |-> bh, directives |-> directives, patch_hints |-> patch_hints]

(* Lines 502-510 *)
visit_interpolation(v, interpolation) ==
    LET t == transform_expr(v.bindings_helper, interpolation.value, v.current_scope)
    IN [v |-> [v EXCEPT !.bindings_helper = t.bh],
        node |-> [interpolation EXCEPT !.template_scope = v.current_scope,
                                       !.value = t.expr,
                                       !.patch_flag = t.result]]

(* The scope the branch's element is about to allocate, when it has a      *)
(* scoping directive                                                       *)
ScopeOfBranch(v, node) ==
    IF /\ IsSome(node.starting_tag.directives)
       /\ \/ IsSome(Unwrap(node.starting_tag.directives).v_for)
          \/ IsSome(Unwrap(node.starting_tag.directives).v_slot)
    THEN Len(v.bindings_helper.template_scopes)
    ELSE v.current_scope

(* Lines 488 and 493: a condition is transformed under self.current_scope, *)
(* whatever the branch's element `node` declares                           *)
ConditionScope(v, node) == v.current_scope

(* The visitor left in the scope the subtree was visited under *)
LeaveScopeAsIs(v, parent_scope) == v

(* Line 477: self.current_scope = parent_scope *)
RestoreScope(v, parent_scope) == [v EXCEPT !.current_scope = parent_scope]

RECURSIVE visit_element_node(_, _)
RECURSIVE visit_conditional_node(_, _)
RECURSIVE ElseIfLoop(_, _, _)
RECURSIVE ChildrenLoop(_, _)

(* impl VisitMut for Node, lines 608-617 *)
visit_mut_with(v, node) ==
    IF IsElement(node) THEN visit_element_node(v, node)
    ELSE IF IsConditionalSeq(node) THEN visit_conditional_node(v, node)
    ELSE IF IsInterpolation(node) THEN visit_interpolation(v, node)
    ELSE [v |-> v, node |-> node]

(* The loop's step with every interpolation counted as dynamic *)
ChildStepAnyInterpolation(w, child) ==
    LET r == visit_mut_with(w.v, child)
    IN [v |-> r.v,
        children |-> Append(w.children, r.node),
        is_children_text_only |->
            w.is_children_text_only
            /\ ~ (IsElement(r.node) \/ IsConditionalSeq(r.node)),
        has_dynamic_interpolation |->
            w.has_dynamic_interpolation \/ IsInterpolation(r.node)]

(* Lines 453-469: `for child in element_node.children.iter_mut()`.         *)
(* w = [v, children, is_children_text_only, has_dynamic_interpolation],    *)
(* children the ones already visited                                       *)
ChildStep(w, child) ==
    LET r == visit_mut_with(w.v, child)
    IN [v |-> r.v,
        children |-> Append(w.children, r.node),
        is_children_text_only |->
            w.is_children_text_only
            /\ ~ (IsElement(r.node) \/ IsConditionalSeq(r.node)),
        has_dynamic_interpolation |->
            w.has_dynamic_interpolation
            \/ (IsInterpolation(r.node) /\ r.node.patch_flag)]

ChildrenLoop(w, rest) ==
    IF ~ Evaluated(w) \/ rest = <<>> THEN w
    ELSE ChildrenLoop(ChildStep(w, Head(rest)), Tail(rest))

(* Lines 279-478 *)
visit_element_node(v, element_node) ==
    LET parent_scope == v.current_scope
        kind == recognize_element_kind(element_node.starting_tag)
        is_component == kind = KindComponent
        v1 == IF is_component
              THEN maybe_resolve_component(v, element_node.starting_tag.tag_name)
              ELSE v
        st == ScopeStep(v1, [element_node EXCEPT !.kind = kind], parent_scope)
        scope_to_use == st.scope_to_use
        a == AttrLoop([bh |-> st.v.bindings_helper,
                       patch_hints |-> st.el.patch_hints,
                       attributes |-> <<>>],
                      st.el.starting_tag.attributes, 1, scope_to_use, is_component)
        b == DirectivesStep(a.bh, st.el.starting_tag.directives, a.patch_hints,
                            scope_to_use)
        optimized == optimize_children(st.el.children, kind)
        w == ChildrenLoop(
                 [v |-> [bindings_helper |-> b.bh, current_scope |-> scope_to_use],
                  children |-> <<>>,
                  is_children_text_only |-> kind = KindElement /\ Len(optimized) > 0,
                  has_dynamic_interpolation |-> FALSE],
                 optimized)
        patch_hints == IF w.is_children_text_only /\ w.has_dynamic_interpolation
                       THEN [b.patch_hints EXCEPT !.flags = @ \cup {"Text"}]
                       ELSE b.patch_hints
    IN [v |-> RestoreScope(w.v, parent_scope),
        node |-> [st.el EXCEPT
                    !.starting_tag.attributes = a.attributes,
                    !.starting_tag.directives = b.directives,
                    !.children = w.children,
                    !.template_scope = scope_to_use,
                    !.patch_hints = patch_hints]]

(* Lines 491-495; c = [v, else_if_nodes], the branches already visited *)
ElseIfLoop(c, else_if_nodes, i) ==
    IF ~ Evaluated(c) \/ i > Len(else_if_nodes) THEN c
    ELSE LET t == transform_expr(c.v.bindings_helper, else_if_nodes[i].condition,
                                 ConditionScope(c.v, else_if_nodes[i].node))
             r == visit_element_node([c.v EXCEPT !.bindings_helper = t.bh],
                                     else_if_nodes[i].node)
         IN ElseIfLoop([v |-> r.v,
                        else_if_nodes |->
                            Append(c.else_if_nodes,
                                   [condition |-> t.expr, node |-> r.node])],
                       else_if_nodes, i + 1)

(* Lines 480-500 *)
visit_conditional_node(v, conditional_node) ==
    LET t == transform_expr(v.bindings_helper, conditional_node.if_node.condition,
                            ConditionScope(v, conditional_node.if_node.node))
        r == visit_element_node([v EXCEPT !.bindings_helper = t.bh],
                                conditional_node.if_node.node)
        c == ElseIfLoop([v |-> r.v, else_if_nodes |-> <<>>],
                        conditional_node.else_if_nodes, 1)
        e == IF IsSome(conditional_node.else_node)
             THEN visit_element_node(c.v, Unwrap(conditional_node.else_node))
             ELSE [v |-> c.v, node |-> None]
    IN [v |-> e.v,
        node |-> [conditional_node EXCEPT
                    !.if_node = [condition |-> t.expr, node |-> r.node],
                    !.else_if_nodes = c.else_if_nodes,
                    !.else_node = IF IsSome(conditional_node.else_node)
                                  THEN Some(e.node) ELSE None]]

-----------------------------------------------------------------------------
(* The visitor's state *)

RootScope == [variables |-> <<>>, parent |-> 0]

(* BindingsHelper's scope table when a pass starts: scope 0 is the root    *)
(* scope, an entry of the table that has no parent                         *)
DefaultTemplateScopes == << RootScope >>

BindingsHelper(setup_bindings, template_scopes) ==
    [setup_bindings |-> setup_bindings,
     template_scopes |-> template_scopes,
     components |-> [t \in TagNames |-> Absent],
     transformed |-> <<>>]

TemplateVisitor(setup_bindings, template_scopes, current_scope) ==
    [bindings_helper |-> BindingsHelper(setup_bindings, template_scopes),
     current_scope |-> current_scope]

NoCall == [op |-> "none", arg |-> "none"]

VisitorIdle ==
    /\ element = ElementNode("div", <<>>, None, <<>>, 0)
    /\ visitor = TemplateVisitor(<<>>, DefaultTemplateScopes, 0)
    /\ call_stack = <<>>
    /\ last_call = NoCall

-----------------------------------------------------------------------------
(* optimize_children as a sequence of stages over `children` *)

InitChildren ==
    /\ \/ /\ input \in Lists(CoreKinds, MaxLen)
          /\ element_kind = KindElement
          /\ overflow_checks = FALSE
       \/ /\ input \in Lists(SlotKinds, MaxSlotLen)
          /\ element_kind \in ElementKinds
          /\ overflow_checks = FALSE
       \/ /\ input \in LongLists \cup LongChainLists
          /\ element_kind = KindElement
          /\ overflow_checks \in BOOLEAN
    /\ children = input
    /\ stage = "trim"
    /\ VisitorIdle

(* Lines 69-106: mark, then retain; a shift overflow panics in a checked build *)
TrimStage ==
    /\ stage = "trim"
    /\ IF TrimPanics(children, overflow_checks)
       THEN stage' = "panicked" /\ UNCHANGED children
       ELSE stage' = "sort" /\ children' = WhitespaceTrim(children)
    /\ UNCHANGED <<input, element_kind, overflow_checks, element, visitor, call_stack, last_call>>

(* Lines 108-116 *)
SortStage ==
    /\ stage = "sort"
    /\ children' = SlotReorder(children, element_kind)
    /\ stage' = "fold"
    /\ UNCHANGED <<input, element_kind, overflow_checks, element, visitor, call_stack, last_call>>

(* Lines 118-216 *)
FoldStage ==
    /\ stage = "fold"
    /\ children' = FoldConditionals(children)
    /\ stage' = "done"
    /\ UNCHANGED <<input, element_kind, overflow_checks, element, visitor, call_stack, last_call>>

NextChildren == TrimStage \/ SortStage \/ FoldStage

SpecChildren == InitChildren /\ [][NextChildren]_vars

-----------------------------------------------------------------------------
(* Elements handed to visit_element_node *)

AttrProto(k) ==
    CASE k = 1 -> Regular("class", "a")
      [] k = 2 -> VBind(Some(Str("foo")), Expr("bar", TRUE))
      [] k = 3 -> VBind(Some(Str("foo")), Expr("1", FALSE))
      [] k = 4 -> VBind(Some(Str("class")), Expr("cls", TRUE))
      [] k = 5 -> VBind(Some(Str("style")), Expr("sty", TRUE))
      [] k = 6 -> VBind(Some(Str("key")), Expr("id", TRUE))
      [] k = 7 -> VBind(Some(DynExpr(Expr("dyn", TRUE))), Expr("val", TRUE))
      [] k = 8 -> VOn(Str("click"), Some(Expr("go", TRUE)))
      [] k = 9 -> VBind(None, Expr("obj", TRUE))
      [] k = 10 -> Regular("key", "k")
      [] k = 11 -> VOn(Str("click"), None)
      [] k = 12 -> VBind(Some(Str("is")), Expr("comp", TRUE))
      [] k = 13 -> VBind(Some(DynExpr(Expr("dyn", TRUE))), Expr("1", FALSE))

HintKinds == 1 .. 7

LoopAttrKinds == {2, 6, 10}

AttrLists(ks, n) ==
    UNION { { [i \in 1 .. m |-> AttrProto(f[i])] : f \in [1 .. m -> ks] } : m \in 0 .. n }

VModels ==
    { <<>>,
      << VModelDirective(None, Expr("model", TRUE)) >>,
      << VModelDirective(Some(Str("title")), Expr("model", TRUE)) >>,
      << VModelDirective(Some(DynExpr(Expr("dyn", TRUE))), Expr("model", TRUE)) >> }

(* Elements whose attributes and models decide the patch hints *)
HintElements ==
    { ElementNode(tag, attrs,
                  IF vm = <<>> THEN None ELSE WithDirective("v_model", vm),
                  <<>>, 0) :
        tag \in {"div", TestKebab},
        attrs \in AttrLists(HintKinds, MaxAttrs),
        vm \in VModels }

VFors ==
    { None,
      Some(VForDirective(Expr("item", FALSE), Expr("list", TRUE))),
      Some(VForDirective(Expr("i", FALSE), Expr("3", FALSE))) }

VSlots ==
    { None,
      Some(VSlotDirective(Some("header"), None)),
      Some(VSlotDirective(None, Some(Expr("slotProps", FALSE)))) }

ChildLists ==
    { <<>>,
      << InterpolationNode(Expr("msg", TRUE), 1) >>,
      << TextNode(WordText, 1), InterpolationNode(Expr("1", FALSE), 2) >>,
      << ElementNode("li", << AttrProto(10) >>,
                     WithDirective("v_for",
                         Some(VForDirective(Expr("sub", FALSE), Expr("subs", TRUE)))),
                     << InterpolationNode(Expr("sub", TRUE), 3) >>, 1),
         ElementNode(TestPascal, <<>>, None, <<>>, 2) >>,
      << Proto(6, 1), Proto(1, 2), Proto(7, 3), Proto(8, 4) >>,
      << ElementNode("template", <<>>,
                     Some([DefaultDirectives EXCEPT
                             !.v_if = Some(Expr("ok", TRUE)),
                             !.v_for = Some(VForDirective(Expr("row", FALSE),
                                                          Expr("rows", TRUE)))]),
                     << ElementNode("p", <<>>, None, <<>>, 2) >>, 1),
         Proto(5, 3) >> }

(* Elements with and without a loop, a slot, a `key`, and children below *)
LoopElements ==
    { ElementNode(tag, attrs,
                  IF v_for = None /\ v_slot = None THEN None
                  ELSE Some([DefaultDirectives EXCEPT !.v_for = v_for, !.v_slot = v_slot]),
                  kids, 0) :
        tag \in {"div", TestKebab},
        attrs \in AttrLists(LoopAttrKinds, MaxLoopAttrs),
        v_for \in VFors, v_slot \in VSlots,
        kids \in ChildLists }

(* Built-ins, `<component>` with and without `is`, handlers, the other     *)
(* directives                                                              *)
OtherElements ==
    { ElementNode(tag, attrs,
                  Some([DefaultDirectives EXCEPT
                          !.v_for = v_for,
                          !.v_show = Some(Expr("vis", TRUE)),
                          !.v_html = Some(Expr("raw", FALSE))]),
                  << InterpolationNode(Expr("msg", TRUE), 1) >>, 0) :
        tag \in {"component", "template", "transition", "UnresolvedComponent"},
        attrs \in { << AttrProto(8) >>, << AttrProto(11), AttrProto(9) >>,
                    << AttrProto(12) >>, << AttrProto(13), AttrProto(10) >> },
        v_for \in VFors }

Binding(name, binding_type) == [name |-> name, binding_type |-> binding_type]

TestBindings == << Binding(TestPascal, "Component") >>

(* The scope tables and current scopes a visit starts from *)
VisitStarts ==
    { [template_scopes |-> DefaultTemplateScopes, current_scope |-> 0],
      [template_scopes |-> << RootScope, RootScope >>, current_scope |-> 1] }

InitVisit ==
    /\ \/ /\ element \in HintElements
          /\ visitor = TemplateVisitor(TestBindings, DefaultTemplateScopes, 0)
       \/ /\ element \in LoopElements \cup OtherElements
          /\ \E start \in VisitStarts :
                visitor = TemplateVisitor(TestBindings, start.template_scopes,
                                          start.current_scope)
    /\ input = element
    /\ children = element.children
    /\ element_kind = element.kind
    /\ overflow_checks = FALSE
    /\ stage = "visit"
    /\ call_stack = <<>>
    /\ last_call = NoCall

(* Lines 279-478: the whole visit of one element, its subtree included *)
VisitElementNode ==
    /\ stage = "visit"
    /\ \E r \in { visit_element_node(visitor, element) } :
          /\ element' = r.node
          /\ visitor' = r.v
          /\ children' = r.node.children
          /\ element_kind' = r.node.kind
    /\ stage' = "visited"
    /\ last_call' = [op |-> "visit_element_node", arg |-> element.starting_tag.tag_name]
    /\ UNCHANGED <<input, overflow_checks, call_stack>>

NextVisit == VisitElementNode

SpecVisit == InitVisit /\ [][NextVisit]_vars

-----------------------------------------------------------------------------
(* Component resolution while the walker moves through scopes *)

BindingTypes == {"Component", "SetupRef"}

BindingLists ==
    UNION { [1 .. m -> { Binding(n, t) : n \in BindingNames, t \in BindingTypes }] :
              m \in 0 .. MaxBindings }

InitResolve ==
    /\ \E setup_bindings \in BindingLists :
          visitor = TemplateVisitor(setup_bindings, DefaultTemplateScopes, 0)
    /\ call_stack = <<>>
    /\ last_call = NoCall
    /\ stage = "walk"
    /\ input = <<>>
    /\ children = <<>>
    /\ element_kind = KindComponent
    /\ overflow_checks = FALSE
    /\ element = ElementNode("div", <<>>, None, <<>>, 0)

(* Line 289: the walker meets a component element named tag_name *)
ResolveCall(tag_name) ==
    /\ visitor' = maybe_resolve_component(visitor, tag_name)
    /\ last_call' = [op |-> "maybe_resolve_component", arg |-> tag_name]
    /\ UNCHANGED <<input, children, element_kind, overflow_checks, stage, element,
                   call_stack>>

(* Lines 280, 300-307, 354: the walker enters an element that opens a scope *)
EnterScope ==
    /\ Len(visitor.bindings_helper.template_scopes) < MaxScopes
    /\ visitor' =
          [visitor EXCEPT
             !.current_scope = Len(visitor.bindings_helper.template_scopes),
             !.bindings_helper.template_scopes =
                 Append(@, [variables |-> <<>>, parent |-> visitor.current_scope])]
    /\ call_stack' = Append(call_stack, visitor.current_scope)
    /\ last_call' = [op |-> "enter", arg |-> "none"]
    /\ UNCHANGED <<input, children, element_kind, overflow_checks, stage, element>>

(* Line 477: the walker leaves the element, the parent's scope is current again *)
LeaveScope ==
    /\ call_stack # <<>>
    /\ visitor' = [visitor EXCEPT !.current_scope = call_stack[Len(call_stack)]]
    /\ call_stack' = SubSeq(call_stack, 1, Len(call_stack) - 1)
    /\ last_call' = [op |-> "leave", arg |-> "none"]
    /\ UNCHANGED <<input, children, element_kind, overflow_checks, stage, element>>

NextResolve ==
    \/ \E tag_name \in TagNames : ResolveCall(tag_name)
    \/ EnterScope
    \/ LeaveScope

SpecResolve == InitResolve /\ [][NextResolve]_vars

-----------------------------------------------------------------------------
(* What the claims say of optimize_children, stated on the input list *)

IsElementOrComment(n) == IsElement(n) \/ IsComment(n)

HasDirective(n, key) ==
    IsElement(n) /\ IsSome(n.starting_tag.directives) /\ IsSome(Directives(n)[key])

IsIfElement(n) == HasDirective(n, "v_if")

IsElseIfElement(n) == ~HasDirective(n, "v_if") /\ HasDirective(n, "v_else_if")

IsElseElement(n) ==
    ~HasDirective(n, "v_if") /\ ~HasDirective(n, "v_else_if") /\ HasDirective(n, "v_else")

(* The node at Rust index i of c is a whitespace-only Text that is first,  *)
(* last, or strictly between two Element/Comment neighbours                *)
DropExpected(c, i) ==
    /\ IsBlankText(c[i + 1])
    /\ \/ i = 0
       \/ i = Len(c) - 1
       \/ IsElementOrComment(c[i]) /\ IsElementOrComment(c[i + 2])

ExpectedTrim(c) ==
    LET Stays(e) == ~DropExpected(c, e.index)
        kept == SelectSeq(Indexed(c), Stays)
    IN [j \in 1 .. Len(kept) |-> kept[j].node]

(* The spans of the nodes of a list: each input node's span is its index *)
Spans(c) == { c[k].span : k \in 1 .. Len(c) }

HasInterpolationNeighbour(c, i) ==
    \/ i > 0 /\ IsInterpolation(c[i])
    \/ i < Len(c) - 1 /\ IsInterpolation(c[i + 2])

(* The chain that starts at the v-if element at 1-based position p: the   *)
(* v-else-if elements and the closing v-else element that follow it,       *)
(* whitespace-only texts and comments between them skipped                 *)
RECURSIVE ChainFrom(_, _, _)
ChainFrom(c, j, seq) ==
    IF j > Len(c) THEN seq
    ELSE IF IsBlankText(c[j]) \/ IsComment(c[j]) THEN ChainFrom(c, j + 1, seq)
    ELSE IF IsElseIfElement(c[j])
    THEN ChainFrom(c, j + 1,
            [seq EXCEPT !.else_if_nodes =
                @ \o << [condition |-> Unwrap(Directives(c[j]).v_else_if),
                         node |-> optimize_v_if_plus_v_for(Take(c[j], "v_else_if"))] >>])
    ELSE IF IsElseElement(c[j])
    THEN [seq EXCEPT !.else_node = Some(optimize_v_if_plus_v_for(c[j]))]
    ELSE seq

ExpectedSeq(c, p) ==
    ChainFrom(c, p + 1,
        ConditionalSeq(Unwrap(Directives(c[p]).v_if),
                       optimize_v_if_plus_v_for(Take(c[p], "v_if"))))

(* C1: a run v-if, v-else-if*, v-else of sibling elements, separated at   *)
(* most by whitespace-only text or comments, is folded into exactly one    *)
(* ConditionalSeq: its if_node the v-if element, its else_if_nodes the     *)
(* v-else-if elements in source order, its else_node present iff the run   *)
(* ended with a v-else element.                                            *)
C1_RunFoldsToOneSeq ==
    stage = "done" =>
        \A p \in 1 .. Len(input) :
            IsIfElement(input[p]) =>
                Cardinality({ k \in 1 .. Len(children) :
                                /\ IsConditionalSeq(children[k])
                                /\ children[k] = ExpectedSeq(input, p) }) = 1

(* C2: with no conditional sequence open (here: no v-if element before    *)
(* it, and no reordering), a v-else-if or v-else element is in the output  *)
(* list as an element identical to the input element.                      *)
C2_OrphanPassesUnmodified ==
    stage = "done" /\ element_kind # KindComponent =>
        \A p \in 1 .. Len(input) :
            /\ IsElseIfElement(input[p]) \/ IsElseElement(input[p])
            /\ \A q \in 1 .. p - 1 : ~IsIfElement(input[q])
            /\ input[p].span \in Spans(WhitespaceTrim(input))
            => \E k \in 1 .. Len(children) : children[k] = input[p]

(* C3: for every sibling list the trim removes exactly the whitespace-only *)
(* Text nodes that are first, last or strictly between two Element/Comment  *)
(* neighbours, and keeps every other node in its original order.            *)
C3_TrimRemovesExactly ==
    stage = "sort" => children = ExpectedTrim(input)

(* C4: a whitespace-only Text node with an Interpolation as an immediate   *)
(* neighbour (the node itself inside the list, not at one of its ends) is   *)
(* retained by the trim.                                                    *)
C4_TextNextToInterpolationKept ==
    stage = "sort" =>
        \A i \in 1 .. Len(input) - 2 :
            IsBlankText(input[i + 1]) /\ HasInterpolationNeighbour(input, i)
                => i \in Spans(children)

(* C5: in a list of more than 128 siblings too, the node at every index is *)
(* dropped exactly when the trim predicate holds of that index: the node at *)
(* index i >= 128 and the node at index i mod 128 are decided separately.   *)
C5_NoSizeLimit ==
    stage = "sort" /\ Len(input) > MaskBits =>
        \A i \in MaskBits .. Len(input) - 1 :
            /\ i \notin Spans(children) <=> DropExpected(input, i)
            /\ (i % MaskBits) \notin Spans(children) <=> DropExpected(input, i % MaskBits)

(* C6: trimming the trimmed list removes nothing further *)
C6_TrimIdempotent ==
    stage = "sort" => WhitespaceTrim(children) = children

-----------------------------------------------------------------------------
(* Claims about visit_element_node *)

(* Every element of the tree below node, node included; the branches of a *)
(* conditional sequence are elements of the tree                           *)
RECURSIVE ElementsOf(_)
ElementsOf(node) ==
    IF IsElement(node)
    THEN {node} \cup UNION { ElementsOf(node.children[i]) : i \in 1 .. Len(node.children) }
    ELSE IF IsConditionalSeq(node)
    THEN ElementsOf(node.if_node.node)
         \cup UNION { ElementsOf(node.else_if_nodes[i].node) :
                        i \in 1 .. Len(node.else_if_nodes) }
         \cup (IF IsSome(node.else_node) THEN ElementsOf(Unwrap(node.else_node)) ELSE {})
    ELSE {}

PropFlags == {"Props", "Class", "Style"}

FragmentFlags == {"StableFragment", "KeyedFragment", "UnkeyedFragment"}

IsNamedReactive(attr) ==
    /\ attr.attr = "VBind"
    /\ IsSome(attr.argument)
    /\ Unwrap(attr.argument).kind = "Str"
    /\ Unwrap(attr.argument).str # "key"
    /\ attr.value.reactive

IsDynamicNamed(attr) ==
    attr.attr = "VBind" /\ ~ (IsSome(attr.argument) /\ Unwrap(attr.argument).kind = "Str")

HasLoop(el) ==
    IsSome(el.starting_tag.directives) /\ IsSome(Unwrap(el.starting_tag.directives).v_for)

LoopOf(el) == Unwrap(Unwrap(el.starting_tag.directives).v_for)

HasKeyAttribute(el) ==
    \E i \in 1 .. Len(el.starting_tag.attributes) :
        LET attr == el.starting_tag.attributes[i]
        IN \/ attr.attr = "Regular" /\ attr.name = "key"
           \/ attr.attr = "VBind" /\ attr.argument = Some(Str("key"))

(* C8: after the visit, a loop element carries exactly one fragment bit:   *)
(* STABLE when its iterable is not reactive, else KEYED with a `key`       *)
(* attribute and UNKEYED without; no other element carries a fragment bit  *)
C8_OneFragmentFlag ==
    stage = "visited" =>
        \A el \in ElementsOf(element) :
            /\ el.patch_hints.flags \cap FragmentFlags = {}
            /\ HasLoop(el) =>
                  LET flags == LoopOf(el).patch_flags \cap FragmentFlags
                  IN /\ Cardinality(flags) = 1
                     /\ ~ LoopOf(el).iterable.reactive => flags = {"StableFragment"}
                     /\ LoopOf(el).iterable.reactive /\ HasKeyAttribute(el)
                           => flags = {"KeyedFragment"}
                     /\ LoopOf(el).iterable.reactive /\ ~ HasKeyAttribute(el)
                           => flags = {"UnkeyedFragment"}

(* A visited tree with a keyed loop, an unkeyed loop below it and an       *)
(* element without a loop                                                  *)
C8_Witness ==
    /\ stage = "visited"
    /\ HasLoop(element)
    /\ LoopOf(element).patch_flags = {"KeyedFragment"}
    /\ \E el \in ElementsOf(element) :
          HasLoop(el) /\ LoopOf(el).patch_flags = {"UnkeyedFragment"}
    /\ \E el \in ElementsOf(element) : ~ HasLoop(el)

-----------------------------------------------------------------------------
(* Claims about maybe_resolve_component *)

components == visitor.bindings_helper.components

Declared(name) ==
    \E i \in 1 .. Len(visitor.bindings_helper.setup_bindings) :
        visitor.bindings_helper.setup_bindings[i].name = name

(* The concatenated-capitalized form of each tag name; a name without a    *)
(* dash is its own form                                                    *)
NormalizedName(tag_name) ==
    CASE tag_name = "test-component" -> "TestComponent"
      [] tag_name = "-my--comp" -> "MyComp"
      [] OTHER -> tag_name

(* C9: with a binding TestComponent declared, the entries of               *)
(* `test-component` and of `TestComponent` are Resolved with a reference   *)
(* to TestComponent; the entry of a tag whose normalized name is not       *)
(* declared is Unresolved                                                  *)
C9_KebabAndPascalResolve ==
    \A tag_name \in TagNames :
        contains_key(components, tag_name) =>
            /\ tag_name \in {TestKebab, TestPascal} /\ Declared(TestPascal) =>
                  /\ components[tag_name].state = "Resolved"
                  /\ Unwrap(components[tag_name].expr).src = TestPascal
            /\ ~ Declared(NormalizedName(tag_name)) =>
                  components[tag_name] = Unresolved

(* Both spellings resolved to TestComponent, and an unmatched tag recorded *)
C9_Witness ==
    /\ Declared(TestPascal)
    /\ components[TestKebab].state = "Resolved"
    /\ components[TestPascal].state = "Resolved"
    /\ Unwrap(components[TestKebab].expr).src = TestPascal
    /\ components["UnresolvedComponent"] = Unresolved
    /\ components["-my--comp"] = Unresolved

(* C10: an entry of the table, once present, never changes, and a call for *)
(* a tag name that has an entry changes nothing of the visitor: no entry,  *)
(* no scope, no further transformed expression                             *)
C10_Memoized ==
    [][ /\ \A tag_name \in TagNames :
              contains_key(components, tag_name) =>
                  visitor'.bindings_helper.components[tag_name] = components[tag_name]
        /\ ( /\ last_call'.op = "maybe_resolve_component"
             /\ contains_key(components, last_call'.arg) )
              => visitor' = visitor ]_vars

(* The last call asked for a tag that was resolved, with a transform,      *)
(* under a scope other than the current one                                *)
C10_Witness ==
    /\ last_call.op = "maybe_resolve_component"
    /\ components[last_call.arg].state = "Resolved"
    /\ Unwrap(components[last_call.arg].expr).scope # None
    /\ Unwrap(components[last_call.arg].expr).scope # Some(visitor.current_scope)
    /\ Len(visitor.bindings_helper.transformed) = 1

-----------------------------------------------------------------------------
(* optimize_v_if_plus_v_for applied to one wrapper *)

WrapperChild(k, sp) ==
    CASE k = 1 -> TextNode(WordText, sp)
      [] k = 2 -> InterpolationNode(Expr("msg", TRUE), sp)
      [] k = 3 -> ElementNode("p", <<>>, None, <<>>, sp)
      [] k = 4 -> ElementNode("p", <<>>, WithDirective("v_show", Some(Expr("vis", TRUE))),
                              <<>>, sp)
      [] k = 5 -> ElementNode("p", <<>>,
                              WithDirective("v_for",
                                  Some(VForDirective(Expr("cell", FALSE), Expr("cells", TRUE)))),
                              << TextNode(WordText, sp + 1000) >>, sp)
      [] k = 6 -> CommentNode(sp)

(* Wrappers of either tag, with and without a condition and a loop, over   *)
(* every list of at most MaxWrapperLen children                            *)
Wrappers ==
    LET lists == UNION { { [i \in 1 .. m |-> WrapperChild(f[i], i)] : f \in [1 .. m -> 1 .. 6] } :
                           m \in 0 .. MaxWrapperLen }
        loop == Some(VForDirective(Expr("row", FALSE), Expr("rows", TRUE)))
        directives ==
            { None,
              WithDirective("v_if", Some(Expr("ok", TRUE))),
              WithDirective("v_for", loop),
              Some([DefaultDirectives EXCEPT !.v_if = Some(Expr("ok", TRUE)), !.v_for = loop]) }
    IN { ElementNode(tag, <<>>, d, kids, 0) :
           tag \in {"template", "div"}, d \in directives, kids \in lists }

InitCollapse ==
    /\ element \in Wrappers
    /\ input = element
    /\ children = element.children
    /\ element_kind = element.kind
    /\ overflow_checks = FALSE
    /\ stage = "collapse"
    /\ visitor = TemplateVisitor(<<>>, DefaultTemplateScopes, 0)
    /\ call_stack = <<>>
    /\ last_call = NoCall

(* Lines 221-266 *)
Collapse ==
    /\ stage = "collapse"
    /\ element' = optimize_v_if_plus_v_for(element)
    /\ children' = element'.children
    /\ stage' = "collapsed"
    /\ UNCHANGED <<input, element_kind, overflow_checks, visitor, call_stack, last_call>>

NextCollapse == Collapse

SpecCollapse == InitCollapse /\ [][NextCollapse]_vars

(* C11.  optimize_v_if_plus_v_for returns the child in place of the        *)
(* wrapper exactly when the wrapper's tag is `template`, it has exactly    *)
(* one child, that child is an Element, and wrapper and child do not both  *)
(* declare a loop; the wrapper's loop, if any, is then on the returned     *)
(* child.  In every other case the wrapper comes back unchanged, its child *)
(* still nested.                                                           *)
DeclaresLoop(el) ==
    el.starting_tag.directives # None /\ el.starting_tag.directives[1].v_for # None

Collapsible(wrapper) ==
    /\ wrapper.starting_tag.tag_name = "template"
    /\ Len(wrapper.children) = 1
    /\ wrapper.children[1].type = "Element"
    /\ ~(DeclaresLoop(wrapper) /\ DeclaresLoop(wrapper.children[1]))

(* The sole child, with the wrapper's loop on it when the wrapper has one *)
ChildWithLoopOf(wrapper) ==
    LET child == wrapper.children[1]
        loop == wrapper.starting_tag.directives[1].v_for
    IN IF ~DeclaresLoop(wrapper) THEN child
       ELSE IF child.starting_tag.directives = None
       THEN [child EXCEPT !.starting_tag.directives =
                << [v_if |-> None, v_else_if |-> None, v_else |-> None, v_for |-> loop,
                    v_slot |-> None, v_model |-> <<>>, v_html |-> None, v_memo |-> None,
                    v_show |-> None, v_text |-> None] >>]
       ELSE [child EXCEPT !.starting_tag.directives[1].v_for = loop]

C11_CollapseExactlyWhen ==
    stage = "collapsed" =>
        IF Collapsible(input) THEN element = ChildWithLoopOf(input) ELSE element = input

C11_Witness ==
    /\ stage = "collapsed"
    /\ DeclaresLoop(input)
    /\ Collapsible(input)
    /\ element.starting_tag.tag_name = "p"
    /\ DeclaresLoop(element)
    /\ element # input.children[1]

-----------------------------------------------------------------------------
(* transform_and_record_template *)

SfcTemplateBlock(roots, span) == [roots |-> roots, span |-> span]

(* Lines 34-54: more than one root, not all of them Text or Interpolation, *)
(* go under one synthetic `template` element                               *)
MergeRoots(roots, span) ==
    IF Len(roots) > 1
       /\ ~ (\A i \in 1 .. Len(roots) : IsText(roots[i]) \/ IsInterpolation(roots[i]))
    THEN << ElementNode("template", <<>>, None, roots, span) >>
    ELSE roots

(* Root lists longer than the mask is wide *)
LongRoots == { h \o Pad(MaskBits + 1, Len(h)) : h \in Lists(EdgeKinds, 1) }

(* Root lists with `template` wrappers that carry v-if: over a plain sole  *)
(* child, and over a sole child that carries a v-if of its own             *)
WrapperRoots == Lists({5, 9, 12}, MaxWrapperRoots)

(* The template's span is the number of its roots, a span no root has.     *)
(* The long root lists are handed to a checked build, which stops in the   *)
(* first statement; SpecChildren follows them through an unchecked build.  *)
InitTemplate ==
    /\ \/ /\ \E roots \in Lists(CoreKinds, MaxRoots) \cup WrapperRoots :
                input = SfcTemplateBlock(roots, Len(roots))
          /\ overflow_checks \in BOOLEAN
       \/ /\ \E roots \in LongRoots : input = SfcTemplateBlock(roots, Len(roots))
          /\ overflow_checks = TRUE
    /\ children = input.roots
    /\ visitor = TemplateVisitor(TestBindings, DefaultTemplateScopes, 0)
    /\ element = ElementNode("template", <<>>, None, <<>>, 0)
    /\ element_kind = KindElement
    /\ stage = "transform"
    /\ call_stack = <<>>
    /\ last_call = NoCall

(* Lines 30-59: optimize_children on the roots, which panics on a shift    *)
(* overflow in a checked build, then the merge, then the visitor of scope  *)
(* 0.  call_stack holds the locals of the loop of lines 61-63: the root    *)
(* being visited and, for a root that is a sequence, the number of its     *)
(* branches already visited.                                               *)
OptimizeRoots ==
    /\ stage = "transform"
    /\ IF TrimPanics(children, overflow_checks)
       THEN /\ stage' = "panicked"
            /\ UNCHANGED <<children, visitor, call_stack>>
       ELSE /\ children' = MergeRoots(optimize_children(children, KindElement), input.span)
            /\ visitor' = [visitor EXCEPT !.current_scope = 0]
            /\ call_stack' = << 1, 0 >>
            /\ stage' = "roots"
    /\ last_call' = [op |-> "transform_and_record_template", arg |-> "template"]
    /\ UNCHANGED <<input, element, element_kind, overflow_checks>>

(* The branches of a root, in the order visit_conditional_node takes them; *)
(* an Element root is its own only branch, without a condition             *)
RootBranches(root) ==
    IF IsElement(root) THEN << [condition |-> None, node |-> root] >>
    ELSE << [condition |-> Some(root.if_node.condition), node |-> root.if_node.node] >>
         \o [k \in 1 .. Len(root.else_if_nodes) |->
                [condition |-> Some(root.else_if_nodes[k].condition),
                 node |-> root.else_if_nodes[k].node]]
         \o (IF IsSome(root.else_node)
             THEN << [condition |-> None, node |-> Unwrap(root.else_node)] >>
             ELSE <<>>)

(* The root with its k-th branch replaced by the visited one *)
WithBranch(root, k, condition, node) ==
    IF IsElement(root) THEN node
    ELSE IF k = 1 THEN [root EXCEPT !.if_node = [condition |-> Unwrap(condition), node |-> node]]
    ELSE IF k <= 1 + Len(root.else_if_nodes)
    THEN [root EXCEPT !.else_if_nodes[k - 1] = [condition |-> Unwrap(condition), node |-> node]]
    ELSE [root EXCEPT !.else_node = Some(node)]

(* Lines 61-63, one visit_element_node call at a time: an Element root     *)
(* (lines 608-617), or the next branch of a sequence root, its condition   *)
(* transformed first (lines 480-500); an Interpolation root is transformed *)
(* (lines 502-510), a Text or Comment root is passed over.                 *)
VisitRoot ==
    /\ stage = "roots"
    /\ call_stack[1] <= Len(children)
    /\ LET i == call_stack[1]
           j == call_stack[2]
           root == children[i]
       IN IF IsElement(root) \/ IsConditionalSeq(root)
          THEN LET branch == RootBranches(root)[j + 1]
                   t == IF IsSome(branch.condition)
                        THEN transform_expr(visitor.bindings_helper,
                                            Unwrap(branch.condition),
                                            ConditionScope(visitor, branch.node))
                        ELSE [bh |-> visitor.bindings_helper, expr |-> branch.node,
                              result |-> FALSE]
                   r == visit_element_node([visitor EXCEPT !.bindings_helper = t.bh],
                                           branch.node)
               IN /\ \E visited \in { r } :
                        /\ children' = [children EXCEPT ![i] =
                                           WithBranch(root, j + 1,
                                                      IF IsSome(branch.condition)
                                                      THEN Some(t.expr) ELSE None,
                                                      visited.node)]
                        /\ visitor' = visited.v
                  /\ call_stack' = IF j + 1 = Len(RootBranches(root))
                                   THEN << i + 1, 0 >> ELSE << i, j + 1 >>
          ELSE IF IsInterpolation(root)
          THEN /\ \E visited \in { visit_interpolation(visitor, root) } :
                    /\ children' = [children EXCEPT ![i] = visited.node]
                    /\ visitor' = visited.v
               /\ call_stack' = << i + 1, 0 >>
          ELSE /\ call_stack' = << i + 1, 0 >>
               /\ UNCHANGED <<children, visitor>>
    /\ UNCHANGED <<input, element, element_kind, overflow_checks, stage, last_call>>

(* Line 64: every root is visited *)
Return ==
    /\ stage = "roots"
    /\ call_stack[1] > Len(children)
    /\ stage' = "transformed"
    /\ call_stack' = <<>>
    /\ UNCHANGED <<input, children, element, element_kind, overflow_checks, visitor, last_call>>

NextTemplate == OptimizeRoots \/ VisitRoot \/ Return

SpecTemplate == InitTemplate /\ [][NextTemplate]_vars

(* The node a root or child is, by the span it came with; a sequence is    *)
(* named by the element of its first branch                                *)
NodeSpan(n) == IF n.type = "ConditionalSeq" THEN n.if_node.node.span ELSE n.span

SpanSeq(c) == [i \in 1 .. Len(c) |-> NodeSpan(c[i])]

OnlyTextAndInterpolation(c) ==
    \A i \in 1 .. Len(c) : c[i].type \in {"Text", "Interpolation"}

(* C12.  After transform_and_record_template, a root list of only Text and *)
(* Interpolation nodes is left unwrapped, the nodes the optimization left  *)
(* being the roots; a root list that after optimization still has more     *)
(* than one node, one of them other than Text or Interpolation, is         *)
(* replaced by exactly one synthetic `template` root that owns all those   *)
(* nodes as children, in their original order.                             *)
C12_RootsMergedOrLeft ==
    stage = "transformed" =>
        LET optimized == optimize_children(input.roots, KindElement)
        IN /\ OnlyTextAndInterpolation(input.roots) =>
                 /\ OnlyTextAndInterpolation(children)
                 /\ SpanSeq(children) = SpanSeq(optimized)
           /\ (Len(optimized) > 1 /\ ~OnlyTextAndInterpolation(optimized)) =>
                 /\ Len(children) = 1
                 /\ children[1].type = "Element"
                 /\ children[1].starting_tag.tag_name = "template"
                 /\ children[1].span = input.span
                 /\ SpanSeq(children[1].children) = SpanSeq(optimized)

-----------------------------------------------------------------------------
(* recognize_element_kind applied to one starting tag *)

StartingTags ==
    { [tag_name |-> tag, attributes |-> attrs, directives |-> None] :
        tag \in {"component", "slot", "transition", "keep-alive", "div", "template",
                 TestKebab, TestPascal, "UnresolvedComponent"},
        attrs \in UNION { [1 .. m -> {Regular("class", "a"), Regular("is", "a"),
                                      AttrProto(12), AttrProto(2)}] : m \in 0 .. MaxAttrs - 1 } }

InitKind ==
    /\ \E starting_tag \in StartingTags :
          element = [ElementNode("div", <<>>, None, <<>>, 0) EXCEPT
                        !.starting_tag = starting_tag]
    /\ input = element
    /\ children = <<>>
    /\ element_kind = element.kind
    /\ overflow_checks = FALSE
    /\ stage = "recognize"
    /\ visitor = TemplateVisitor(<<>>, DefaultTemplateScopes, 0)
    /\ call_stack = <<>>
    /\ last_call = NoCall

(* Lines 284-286, 515-541 *)
RecognizeElementKind ==
    /\ stage = "recognize"
    /\ element_kind' = recognize_element_kind(element.starting_tag)
    /\ element' = [element EXCEPT !.kind = element_kind']
    /\ stage' = "recognized"
    /\ UNCHANGED <<input, children, overflow_checks, visitor, call_stack, last_call>>

NextKind == RecognizeElementKind

SpecKind == InitKind /\ [][NextKind]_vars

(* C13.  recognize_element_kind classifies by priority: a name of the      *)
(* built-in vocabulary is Builtin of its kind, except `component` without  *)
(* an `is` attribute, which is Component; otherwise a name of the HTML     *)
(* vocabulary is Element; every other name is Component.  A name of both   *)
(* vocabularies is Builtin.                                                *)
BuiltinNames == {"component", "slot", "transition", "keep-alive"}

HtmlNames == {"div", "p", "span", "h1", "h2", "h3", "ul", "li", "template", "slot"}

CarriesIs(starting_tag) ==
    \E i \in 1 .. Len(starting_tag.attributes) :
        LET attr == starting_tag.attributes[i]
        IN \/ attr.attr = "Regular" /\ attr.name = "is"
           \/ attr.attr = "VBind" /\ attr.argument = << [kind |-> "Str", str |-> "is"] >>

C13_KindByPriority ==
    stage = "recognized" =>
        LET tag == input.starting_tag.tag_name
            bare_component == tag = "component" /\ ~CarriesIs(input.starting_tag)
        IN /\ (tag \in BuiltinNames /\ ~bare_component) <=> element_kind[1] = "Builtin"
           /\ bare_component => element_kind = <<"Component">>
           /\ (tag \notin BuiltinNames /\ tag \in HtmlNames) <=> element_kind = <<"Element">>
           /\ (tag \notin BuiltinNames /\ tag \notin HtmlNames) => element_kind = <<"Component">>
           /\ element_kind[1] = "Builtin" =>
                 element_kind[2] = (CASE tag = "component" -> "Component"
                                      [] tag = "slot" -> "Slot"
                                      [] tag = "transition" -> "Transition"
                                      [] tag = "keep-alive" -> "KeepAlive")

C13_Witness ==
    /\ stage = "recognized"
    /\ input.starting_tag.tag_name \in BuiltinNames \cap HtmlNames
    /\ element_kind[1] = "Builtin"

-----------------------------------------------------------------------------
(* The scope table across one visit_element_node call *)

DeclaresValuedSlot(el) ==
    /\ el.starting_tag.directives # None
    /\ el.starting_tag.directives[1].v_slot # None
    /\ el.starting_tag.directives[1].v_slot[1].value # None

(* The elements of a sequence, in the order of its branches *)
BranchElements(seq) ==
    << seq.if_node.node >>
    \o [k \in 1 .. Len(seq.else_if_nodes) |-> seq.else_if_nodes[k].node]
    \o seq.else_node

RECURSIVE OpenersOf(_)
RECURSIVE OpenersIn(_)

(* The number of elements of a visited tree that declare a loop or a slot  *)
(* directive with a value                                                  *)
OpenersOf(node) ==
    IF node.type = "Element"
    THEN (IF DeclaresLoop(node) \/ DeclaresValuedSlot(node) THEN 1 ELSE 0)
         + OpenersIn(node.children)
    ELSE IF node.type = "ConditionalSeq" THEN OpenersIn(BranchElements(node))
    ELSE 0

OpenersIn(nodes) ==
    IF nodes = <<>> THEN 0 ELSE OpenersOf(Head(nodes)) + OpenersIn(Tail(nodes))

(* C14.  The walker appends a new scope only when the visited element      *)
(* carries a loop directive or a slot directive that has a value: a visit  *)
(* appends as many scopes as the visited tree has such elements, and an    *)
(* element with neither (a value-less slot directive included) is          *)
(* processed under its parent's scope id.                                  *)
C14_ScopeOnlyForLoopOrValuedSlot ==
    [][stage = "visit" =>
         /\ Len(visitor'.bindings_helper.template_scopes)
              = Len(visitor.bindings_helper.template_scopes) + OpenersOf(element')
         /\ ~ (DeclaresLoop(element) \/ DeclaresValuedSlot(element)) =>
               element'.template_scope = visitor.current_scope]_vars

(* The scope ids in use before a visit: the root scope 0, the current      *)
(* scope, and every entry of the table                                     *)
ScopeIdsInUse(v) ==
    {0, v.current_scope} \cup (0 .. Len(v.bindings_helper.template_scopes) - 1)

HasScopingDirective(el) ==
    /\ el.starting_tag.directives # None
    /\ \/ el.starting_tag.directives[1].v_for # None
       \/ el.starting_tag.directives[1].v_slot # None

(* The scope that was current when a visited node was entered is `scope`   *)
EnteredUnder(node, scope, template_scopes) ==
    IF node.type = "Element"
    THEN IF HasScopingDirective(node)
         THEN /\ node.template_scope # scope
              /\ template_scopes[node.template_scope + 1].parent = scope
         ELSE node.template_scope = scope
    ELSE IF node.type = "Interpolation" THEN node.template_scope = scope
    ELSE IF node.type = "ConditionalSeq"
    THEN \A k \in 1 .. Len(BranchElements(node)) :
            LET branch == BranchElements(node)[k]
            IN IF HasScopingDirective(branch)
               THEN /\ branch.template_scope # scope
                    /\ template_scopes[branch.template_scope + 1].parent = scope
               ELSE branch.template_scope = scope
    ELSE TRUE

(* C16.  When visit_element_node returns, the current scope is the one at  *)
(* its entry, for every element at every nesting: the visitor comes back   *)
(* with the scope it came with, and inside the visited tree every child of *)
(* an element, whatever its preceding siblings allocated, was entered      *)
(* under that element's scope.                                             *)
C16_ScopeRestored ==
    [][stage = "visit" =>
         /\ visitor'.current_scope = visitor.current_scope
         /\ EnteredUnder(element', visitor.current_scope,
                         visitor'.bindings_helper.template_scopes)
         /\ \A el \in ElementsOf(element') :
               \A k \in 1 .. Len(el.children) :
                  EnteredUnder(el.children[k], el.template_scope,
                               visitor'.bindings_helper.template_scopes)]_vars

C16_Witness ==
    /\ stage = "visited"
    /\ visitor.current_scope = 1
    /\ element.template_scope = 2
    /\ Len(element.children) > 1
    /\ element.children[1].type = "Element"
    /\ element.children[1].template_scope = 3
    /\ element.children[2].type = "Element"
    /\ element.children[2].template_scope = 2

-----------------------------------------------------------------------------
(* The conditions of a sequence *)

(* The sources of the expressions visit_element_node transforms first for  *)
(* an element: its loop's iterable                                         *)
LoopSources(el) ==
    IF DeclaresLoop(el) THEN { el.starting_tag.directives[1].v_for[1].iterable.src } ELSE {}

(* The conditions of a sequence with the element each of them guards *)
Conditionals(seq) ==
    << seq.if_node >> \o seq.else_if_nodes

(* In the log of transform_expr calls, `src` was transformed under `scope` *)
(* before any expression of `later` was transformed                        *)
TransformedBefore(log, src, scope, later) ==
    \E i \in 1 .. Len(log) :
        /\ log[i] = [src |-> src, scope |-> scope]
        /\ \A j \in 1 .. Len(log) : log[j].src \in later => i < j

(* C17.  In visit_conditional_node every if / else-if condition is         *)
(* transformed under the scope current for the sequence's parent, never    *)
(* under a scope the branch's element allocates, and before the branch's   *)
(* element is visited.                                                     *)
C17_ConditionsUnderParentScope ==
    stage = "visited" =>
        \A el \in ElementsOf(element) :
            \A k \in 1 .. Len(el.children) :
                el.children[k].type = "ConditionalSeq" =>
                    \A b \in 1 .. Len(Conditionals(el.children[k])) :
                        LET branch == Conditionals(el.children[k])[b]
                        IN /\ branch.condition.scope = << el.template_scope >>
                           /\ HasScopingDirective(branch.node) =>
                                 branch.condition.scope # << branch.node.template_scope >>
                           /\ TransformedBefore(visitor.bindings_helper.transformed,
                                                branch.condition.src, el.template_scope,
                                                LoopSources(branch.node))

C17_Witness ==
    /\ stage = "visited"
    /\ Len(element.children) > 0
    /\ element.children[1].type = "ConditionalSeq"
    /\ DeclaresLoop(element)
    /\ DeclaresLoop(element.children[1].if_node.node)
    /\ element.children[1].if_node.condition.scope = << element.template_scope >>
    /\ element.children[1].if_node.node.template_scope > element.template_scope

(* C18.  transform_and_record_template never aborts: whatever the input    *)
(* tree, it runs to completion without a panic, an arithmetic or shift     *)
(* overflow or an unreachable branch being hit.                            *)
C18_NeverAborts == stage # "panicked"

-----------------------------------------------------------------------------
(* Slot reordering *)

(* Content of a named slot: an element whose slot directive names a slot   *)
(* other than the default one                                              *)
NamedSlotContent(n) ==
    /\ n.type = "Element"
    /\ n.starting_tag.directives # None
    /\ n.starting_tag.directives[1].v_slot # None
    /\ n.starting_tag.directives[1].v_slot[1].slot_name \notin { None, << "default" >> }

DefaultSlotContent(n) == ~NamedSlotContent(n)

(* C19.  Slot reordering is applied only when the parent's kind is         *)
(* Component, and is a stable partition: the children that are not         *)
(* default-slot content come first, the relative order inside each group   *)
(* is the one before; under an Element or a Builtin parent the stage       *)
(* leaves the list as it is.                                               *)
C19_SlotsStablePartition ==
    [][stage = "sort" =>
         IF element_kind = << "Component" >>
         THEN children' = SelectSeq(children, NamedSlotContent)
                          \o SelectSeq(children, DefaultSlotContent)
         ELSE children' = children]_vars

C19_Witness ==
    /\ stage = "fold"
    /\ element_kind = << "Component" >>
    /\ Len(children) = 3
    /\ NamedSlotContent(children[1])
    /\ DefaultSlotContent(children[2])
    /\ DefaultSlotContent(children[3])
    /\ children[2].span < children[3].span
    /\ children[3].span < children[1].span

-----------------------------------------------------------------------------
(* The TEXT hint *)

(* C20.  The TEXT bit is set on an element exactly when its kind is plain  *)
(* Element, its optimized child list is not empty, no direct child is an   *)
(* Element or a ConditionalSeq, and at least one direct Interpolation      *)
(* child has its dynamic flag set; an interpolation's dynamic flag is what *)
(* transforming its expression under the current scope answered.  TEXT is  *)
(* never set on a Component or a Builtin.                                  *)
C20_TextFlagExactlyWhen ==
    stage = "visited" =>
        \A el \in ElementsOf(element) :
            /\ "Text" \in el.patch_hints.flags <=>
                  /\ el.kind = << "Element" >>
                  /\ Len(el.children) > 0
                  /\ \A k \in 1 .. Len(el.children) :
                        el.children[k].type \notin {"Element", "ConditionalSeq"}
                  /\ \E k \in 1 .. Len(el.children) :
                        /\ el.children[k].type = "Interpolation"
                        /\ el.children[k].patch_flag
            /\ \A k \in 1 .. Len(el.children) :
                  el.children[k].type = "Interpolation" =>
                      /\ el.children[k].patch_flag = el.children[k].value.reactive
                      /\ el.children[k].value.scope = << el.template_scope >>
                      /\ el.children[k].template_scope = el.template_scope

C20_Witness ==
    /\ stage = "visited"
    /\ element.kind = << "Element" >>
    /\ "Text" \in element.patch_hints.flags
    /\ DeclaresLoop(element)
    /\ element.template_scope > 0
    /\ Len(element.children) = 1
    /\ element.children[1].type = "Interpolation"
    /\ element.children[1].value.scope = << element.template_scope >>

-----------------------------------------------------------------------------
(* Conditional folding, from the list the stage is handed to the list it   *)
(* leaves                                                                  *)

(* The position in the list c of the element a folded branch was made      *)
(* from: the element of that span, or the `template` wrapper whose sole    *)
(* child it is                                                             *)
OriginOf(c, el) ==
    CHOOSE p \in 1 .. Len(c) :
        \/ c[p].span = el.span
        \/ /\ c[p].type = "Element"
           /\ Len(c[p].children) = 1
           /\ c[p].children[1].span = el.span

(* From position q on: the v-else-if elements that follow one another,     *)
(* comments between them passed over, and the position where that run      *)
(* stops                                                                   *)
RECURSIVE ElseIfsFrom(_, _)
ElseIfsFrom(c, q) ==
    IF q > Len(c) THEN [run |-> <<>>, stop |-> q]
    ELSE IF c[q].type = "Comment" THEN ElseIfsFrom(c, q + 1)
    ELSE IF IsElseIfElement(c[q])
    THEN [ElseIfsFrom(c, q + 1) EXCEPT !.run = << q >> \o @]
    ELSE [run |-> <<>>, stop |-> q]

(* The extent of the sequence the v-if element at position p starts *)
Extent(c, p) ==
    LET r == ElseIfsFrom(c, p + 1)
    IN [first |-> p,
        else_ifs |-> r.run,
        last |-> IF r.stop <= Len(c) /\ IsElseElement(c[r.stop]) THEN << r.stop >> ELSE <<>>]

(* The positions a sequence of the output was made from *)
ExtentOfSeq(c, seq) ==
    [first |-> OriginOf(c, seq.if_node.node),
     else_ifs |-> [k \in 1 .. Len(seq.else_if_nodes) |-> OriginOf(c, seq.else_if_nodes[k].node)],
     last |-> IF seq.else_node = <<>> THEN <<>> ELSE << OriginOf(c, seq.else_node[1]) >>]

IfPositions(c) ==
    SelectSeq([i \in 1 .. Len(c) |-> i], LAMBDA i : IsIfElement(c[i]))

(* C21.  Each ConditionalSeq optimize_children produces has exactly this   *)
(* extent: one v-if element, the maximal run of v-else-if elements that    *)
(* directly follow it, and at most one v-else element, which ends it.      *)
(* Every v-if sibling starts a sequence of its own, and a v-else-if or     *)
(* v-else element after a v-else is not attached.                          *)
C21_SequenceExtent ==
    [][stage = "fold" =>
         LET starts == IfPositions(children)
             seqs == SelectSeq(children', IsConditionalSeq)
         IN /\ Len(seqs) = Len(starts)
            /\ \A k \in 1 .. Len(seqs) :
                  ExtentOfSeq(children, seqs[k]) = Extent(children, starts[k])]_vars

C21_Witness ==
    /\ stage = "done"
    /\ Len(input) = 4
    /\ Len(children) = 2
    /\ children[1].type = "ConditionalSeq"
    /\ Len(children[1].else_if_nodes) = 1
    /\ children[1].else_node # <<>>
    /\ IsElseElement(children[2])

(* After the nodes at positions 1 .. q of the list c a sequence is open *)
RECURSIVE OpenAfter(_, _)
OpenAfter(c, q) ==
    IF q = 0 THEN FALSE
    ELSE IF c[q].type = "Comment" THEN OpenAfter(c, q - 1)
    ELSE IF IsIfElement(c[q]) THEN TRUE
    ELSE IF IsElseIfElement(c[q]) THEN OpenAfter(c, q - 1)
    ELSE FALSE

(* The position in c a node of the output stands for: a sequence stands    *)
(* for its v-if element                                                    *)
NodeOrigin(c, n) ==
    IF n.type = "ConditionalSeq" THEN OriginOf(c, n.if_node.node) ELSE OriginOf(c, n)

(* The positions of c a sequence's branches were made from *)
BranchOrigins(c, seq) ==
    {OriginOf(c, seq.if_node.node)}
    \cup { OriginOf(c, seq.else_if_nodes[k].node) : k \in 1 .. Len(seq.else_if_nodes) }
    \cup { OriginOf(c, seq.else_node[k]) : k \in 1 .. Len(seq.else_node) }

(* C22.  During conditional folding a Comment met while a sequence is open *)
(* is absorbed: it is not in the output, and the v-else-if or v-else       *)
(* element after it still joins the sequence.  A Comment met while no      *)
(* sequence is open is in the output unchanged, at its position.           *)
C22_CommentsAbsorbedWhileOpen ==
    [][stage = "fold" =>
         LET c == children
             kept == SelectSeq([q \in 1 .. Len(c) |-> q],
                               LAMBDA q : c[q].type = "Comment" /\ ~OpenAfter(c, q - 1))
         IN /\ SelectSeq(children', IsComment) = [k \in 1 .. Len(kept) |-> c[kept[k]]]
            /\ \A k \in 1 .. Len(children') - 1 :
                  NodeOrigin(c, children'[k]) < NodeOrigin(c, children'[k + 1])
            /\ \A q \in 2 .. Len(c) :
                  /\ c[q - 1].type = "Comment"
                  /\ OpenAfter(c, q - 1)
                  /\ IsElseIfElement(c[q]) \/ IsElseElement(c[q])
                  => \E k \in 1 .. Len(children') :
                        /\ children'[k].type = "ConditionalSeq"
                        /\ q \in BranchOrigins(c, children'[k])
                        /\ NodeOrigin(c, children'[k]) < q - 1]_vars

C22_Witness ==
    /\ stage = "done"
    /\ Len(input) = 4
    /\ input[1].type = "Comment"
    /\ input[3].type = "Comment"
    /\ Len(children) = 2
    /\ children[1] = input[1]
    /\ children[2].type = "ConditionalSeq"
    /\ children[2].else_node # <<>>

(* A node the fold neither merges nor absorbs *)
IsPlain(n) ==
    /\ n.type # "Comment"
    /\ ~IsIfElement(n)
    /\ ~IsElseIfElement(n)
    /\ ~IsElseElement(n)

(* C23.  Every node that is neither a conditional element nor an absorbed  *)
(* comment closes the open sequence and is emitted right after it, and the *)
(* end of the list closes a sequence still open: the output keeps the      *)
(* order of the input, each chain is one sequence at the place of its v-if *)
(* element, and no such node is lost or duplicated.                        *)
C23_PlainNodesCloseAndStay ==
    [][stage = "fold" =>
         LET c == children
             out == children'
             max(S) == CHOOSE x \in S : \A y \in S : y <= x
         IN /\ SelectSeq(out, LAMBDA n : /\ n.type # "ConditionalSeq"
                                          /\ IsPlain(c[OriginOf(c, n)]))
                  = SelectSeq(c, IsPlain)
            /\ \A k \in 1 .. Len(out) - 1 :
                  NodeOrigin(c, out[k]) < NodeOrigin(c, out[k + 1])
            /\ Len(SelectSeq(out, IsConditionalSeq)) = Len(IfPositions(c))
            /\ \A k \in 1 .. Len(out) :
                  \A p \in {NodeOrigin(c, out[k])} :
                     IF out[k].type = "ConditionalSeq"
                     THEN /\ IsIfElement(c[p])
                          /\ \A q \in p .. max(BranchOrigins(c, out[k])) : ~IsPlain(c[q])
                     ELSE IsPlain(c[p]) /\ OpenAfter(c, p - 1)
                          => /\ k > 1
                             /\ out[k - 1].type = "ConditionalSeq"
                             /\ max(BranchOrigins(c, out[k - 1])) < p
            /\ OpenAfter(c, Len(c))
                  => /\ Len(out) > 0
                     /\ out[Len(out)].type = "ConditionalSeq"]_vars

C23_Witness ==
    /\ stage = "done"
    /\ Len(input) = 4
    /\ IsIfElement(input[1])
    /\ input[2].type = "Interpolation"
    /\ IsIfElement(input[3])
    /\ IsElseIfElement(input[4])
    /\ Len(children) = 3
    /\ children[1].type = "ConditionalSeq"
    /\ children[2] = input[2]
    /\ children[3].type = "ConditionalSeq"
    /\ Len(children[3].else_if_nodes) = 1

-----------------------------------------------------------------------------
(* Conditionals of the whole template *)

RECURSIVE IfsOf(_)
RECURSIVE IfsIn(_)

(* The number of v-if directives declared in a tree of the input *)
IfsOf(node) ==
    IF node.type = "Element"
    THEN (IF IsIfElement(node) THEN 1 ELSE 0) + IfsIn(node.children)
    ELSE 0

IfsIn(nodes) ==
    IF nodes = <<>> THEN 0 ELSE IfsOf(Head(nodes)) + IfsIn(Tail(nodes))

RECURSIVE SeqsOf(_)
RECURSIVE SeqsIn(_)

(* The number of conditional sequences in a tree of the output *)
SeqsOf(node) ==
    IF node.type = "Element" THEN SeqsIn(node.children)
    ELSE IF node.type = "ConditionalSeq" THEN 1 + SeqsIn(BranchElements(node))
    ELSE 0

SeqsIn(nodes) ==
    IF nodes = <<>> THEN 0 ELSE SeqsOf(Head(nodes)) + SeqsIn(Tail(nodes))

(* C24.  After transform_and_record_template no element anywhere in the    *)
(* output tree still carries a v-if, and every v-if of the input is the    *)
(* condition of a ConditionalSeq of the output: there are as many          *)
(* sequences as v-if directives, the v-if of the sole child of a collapsed *)
(* `template` wrapper included.                                            *)
C24_EveryIfFolded ==
    stage = "transformed" =>
        /\ \A i \in 1 .. Len(children) :
              \A el \in ElementsOf(children[i]) : ~IsIfElement(el)
        /\ SeqsIn(children) = IfsIn(input.roots)

-----------------------------------------------------------------------------
(* Branches of one sequence, back in the list optimize_children was handed *)

(* C25.  Two sibling elements are branches of the same ConditionalSeq only *)
(* if nothing but whitespace-only text and comments stood between them in  *)
(* the input list: every input node between the first and the last branch  *)
(* of a sequence is a branch of it, a whitespace-only text or a comment,   *)
(* for a Component parent as for any other.                                *)
C25_BranchesWereAdjacent ==
    stage = "done" =>
        \A k \in 1 .. Len(children) :
            children[k].type = "ConditionalSeq" =>
                \A origins \in {BranchOrigins(input, children[k])} :
                    \A p \in origins, q \in origins, r \in 1 .. Len(input) :
                        p < r /\ r < q =>
                            \/ r \in origins
                            \/ IsBlankText(input[r])
                            \/ input[r].type = "Comment"

=============================================================================
